---- MODULE Spec2Model ----
(***************************************************************************)
(* Transformers-from-scratch: the autoregressive generation loops          *)
(* (translate, the notebook cell before it, and the decoder-only cell)     *)
(* and the shape / masking logic of the forward calls they drive           *)
(* (PositionalEncoding.forward, MultiHeadAttention.forward,                *)
(* CausalSelfAttention.forward, the encoder and decoder stacks).           *)
(*                                                                         *)
(* Floating-point tensors are abstracted as follows.                       *)
(*  - A decoder output is a sequence of T rows of integer logits.  The     *)
(*    network is an arbitrary function of its input, so every call draws   *)
(*    its logits nondeterministically; within one run no input repeats     *)
(*    (the sequence grows by one id per call), so this is the same as      *)
(*    fixing an arbitrary function beforehand.                             *)
(*  - Attention scores are small integers, NegInf stands for float('-inf') *)
(*    and NaN for the not-a-number produced by softmax on a row that is    *)
(*    -inf everywhere.  A weight is a fraction <<num, den>>.               *)
(***************************************************************************)
EXTENDS Integers, Sequences, FiniteSets, TLC

\* ------------------------------------------------------------------ bounds
MaxSteps == 3       \* range(32) of the seq2seq loops, scaled down
MaxLenCfg == 4      \* max_len constructor argument ranges over 1..MaxLenCfg
VocabSize == 3      \* vocab_size: ids are 0..VocabSize-1
MaxPrompt == 2      \* longest initial decoder sequence
MaxEnc == 3         \* longest encoder input
MaxT == 3           \* longest sequence given to a single forward call
NHeads == 2         \* n_heads (4 in the notebooks), scaled down
NLayers == 2        \* n_layers=2
MaxDk == 2          \* d_k constructor argument ranges over 1..MaxDk
MaxDModel == 4      \* d_model constructor argument ranges over 1..MaxDModel
MaxTrainings == 1     \* calls of train that change the parameters
MaxEpochs == 1        \* epochs of one call of train
MaxBatches == 2       \* batches of the training loader
MaxBatchT == 2      \* longest sequence of a forward call on a batch of two

\* --------------------------------------------------------- program constants
EosId == 0          \* </s>: "if prediction_id == 0"
SepTokenId == 1     \* tokenizer.sep_token_id of the decoder-only notebook
TranslateSteps == 32     \* translate: for _ in range(32)
TranslateMaxLen == 512   \* Decoder(..., max_len=512, ...)

\* A variable not assigned yet, and the encoder arguments the decoder-only
\* notebook does not have.
NoEncInput == [input_ids |-> <<>>, attention_mask |-> <<>>]
NoEncOutput == [src |-> NoEncInput, run |-> 0]
Vocab == 0 .. (VocabSize - 1)
Logits == {0, 1}                 \* a logit is "low" or "high"
Rows == [Vocab -> Logits]        \* the logits of one position
Modes == {"translate", "cell", "lm"}

Min(a, b) == IF a <= b THEN a ELSE b

VARIABLES
  mode,            \* which generation loop runs
  pc,              \* the statement to execute next; "done", "raised" at the end
  max_len,         \* max_len the encoder and decoder were constructed with
  max_steps,       \* the bound of the for loop
  prompt,          \* the initial decoder id sequence
  enc_input,       \* tokenizer output for the source sentence
  enc_output,      \* encoder(enc_input ids, mask)
  encoder_runs,    \* number of encoder forward calls so far
  dec_input_ids,   \* current decoder id sequence (batch element 0)
  dec_attn_mask,   \* current decoder padding mask
  dec_output,      \* logits returned by the last decoder call
  prediction_id,   \* ids selected by the last step, one per batch element
  step,            \* iterations of the for loop completed
  calls,           \* the decoder calls made so far, in order
  translation,     \* the ids handed to tokenizer.decode
  fcall,           \* a single forward call: the module's configuration and inputs
  fres             \* what that forward call produced

VARIABLES
  training,        \* nn.Module.training of the models: dropout is active
  net,             \* the constructor arguments of a model, and the model built
  fargs,           \* the arguments of one forward call of that model
  flow,            \* the operations that call applied, in order
  fprev            \* the flow of the previous call with the same arguments

VARIABLES
  weights,         \* the parameters of the models: how many trainings shaped them
  first,           \* what the first of two runs of the generation loop produced
  seen             \* the ids the decoder selected, per parameters, arguments, dropout masks

genvars == <<mode, pc, max_len, max_steps, prompt, enc_input, enc_output,
             encoder_runs, dec_input_ids, dec_attn_mask, dec_output,
             prediction_id, step, calls, translation>>
fwdvars == <<fcall, fres>>
flowvars == <<training, net, fargs, flow, fprev>>
detvars == <<weights, first, seen>>
vars == <<genvars, fwdvars, flowvars, detvars>>

\* ------------------------------------------------------- tensor shape rules

\* self.pe[:, :x.size(1), :] and self.causal_mask[:, :, :T, :T]: a slice never
\* reaches past the table, it is cut at max_len.
SliceLen(T, ml) == Min(T, ml)

\* x + pe: two sizes of one dimension are compatible when equal or when one is 1.
AddBroadcasts(a, b) == a = b \/ a = 1 \/ b = 1

\* masked_fill(mask, value): the mask's size m must broadcast to the tensor's t.
FillBroadcasts(m, t) == m = t \/ m = 1

\* PositionalEncoding.forward on a length-T input: TRUE when it returns.
PositionalEncodingReturns(T, ml) == AddBroadcasts(T, SliceLen(T, ml))

\* The causal masked_fill of an attention call with T_output queries and
\* T_input keys: TRUE when it returns.
CausalFillReturns(Tq, Tk, ml) ==
  /\ FillBroadcasts(SliceLen(Tq, ml), Tq)
  /\ FillBroadcasts(SliceLen(Tk, ml), Tk)

\* Encoder.forward: embedding, positional encoding, blocks without causal mask.
EncoderReturns(T, ml) == PositionalEncodingReturns(T, ml)

\* Decoder.forward (both notebooks): embedding, positional encoding, then
\* blocks whose first sublayer is causal self-attention over the T positions.
DecoderReturns(T, ml) ==
  /\ PositionalEncodingReturns(T, ml)
  /\ CausalFillReturns(T, T, ml)

\* ------------------------------------------------- attention, as computed

BatchSizes == {1, 2}             \* N of a single forward call
Heads == 1 .. NHeads
Bits == {0, 1}

\* An attention score: a finite value, float('-inf'), or not-a-number.
Fin(k) == [kind |-> "fin", val |-> k]
NegInf == [kind |-> "ninf", val |-> 0]
NaNScore == [kind |-> "nan", val |-> 0]

\* An attention weight is the fraction num / den; 0 / 0 is not-a-number.
NaN == [num |-> 0, den |-> 0]
IsNaN(w) == w.den = 0
IsZero(w) == w.den > 0 /\ w.num = 0
IsPositive(w) == w.den > 0 /\ w.num > 0

\* The finite score q_i . k_j / sqrt(d_k) of batch element n and head h.
RawScore(seed, n, h, i, j) == (seed + n + h + i + j) % 2

\* Scores computed from the first batch element's rows for every element.
AttnScores_FirstElementForAll(seed, n, h, Tq, Tk, qnan, knan) ==
  [i \in 1 .. Tq |-> [j \in 1 .. Tk |->
     IF i \in qnan \/ j \in knan THEN NaNScore
     ELSE Fin(RawScore(seed, 1, h, i, j))]]

\* q @ k.transpose(-2, -1) / math.sqrt(d_k) for one batch element and head:
\* a not-a-number query or key row makes its scores not-a-number.
AttnScores(seed, n, h, Tq, Tk, qnan, knan) ==
  [i \in 1 .. Tq |-> [j \in 1 .. Tk |->
     IF i \in qnan \/ j \in knan THEN NaNScore
     ELSE Fin(RawScore(seed, n, h, i, j))]]

\* attn_scores.masked_fill(pad_mask[:, None, None, :] == 0, float('-inf'))
\* for one batch element and head: padrow is that element's mask over keys.
PadFill(sc, padrow) ==
  [i \in DOMAIN sc |-> [j \in DOMAIN sc[i] |->
     IF padrow[j] = 0 THEN NegInf ELSE sc[i][j]]]

\* torch.tril(torch.ones(max_len, max_len)): ones on and below the diagonal.
Tril(ml) == [a \in 1 .. ml |-> [b \in 1 .. ml |-> IF b <= a THEN 1 ELSE 0]]

\* self.causal_mask[:, :, :T_output, :T_input]
CausalSlice(cm, Tq, Tk) ==
  [a \in 1 .. SliceLen(Tq, Len(cm)) |->
     [b \in 1 .. SliceLen(Tk, Len(cm)) |-> cm[a][b]]]

\* Broadcasting reads a dimension of size 1 at index 1 for every index.
BroadcastIndex(size, i) == IF size = 1 THEN 1 ELSE i

\* The causal mask entry that masked_fill applies at query i, key j.
CausalEntry(slice, i, j) ==
  slice[BroadcastIndex(Len(slice), i)][BroadcastIndex(Len(slice[1]), j)]

\* attn_scores.masked_fill(causal_mask[...] == 0, float('-inf'))
CausalFill(sc, slice) ==
  [i \in DOMAIN sc |-> [j \in DOMAIN sc[i] |->
     IF CausalEntry(slice, i, j) = 0 THEN NegInf ELSE sc[i][j]]]

RECURSIVE SumExp(_, _)
SumExp(row, j) ==
  IF j = 0 THEN 0
  ELSE SumExp(row, j - 1) + (IF row[j].kind = "fin" THEN 2 ^ row[j].val ELSE 0)

\* F.softmax(attn_scores, dim=-1) on one row (base 2 in place of e): a
\* not-a-number score, or a row that is -inf everywhere, gives not-a-number
\* at every key; otherwise -inf gives exactly 0 and the rest sum to 1.
SoftmaxRow(row) ==
  IF \E j \in DOMAIN row : row[j].kind = "nan" THEN [j \in DOMAIN row |-> NaN]
  ELSE LET den == SumExp(row, Len(row))
       IN [j \in DOMAIN row |->
             [num |-> IF den = 0 \/ row[j].kind # "fin" THEN 0 ELSE 2 ^ row[j].val,
              den |-> den]]

\* The result of a forward call: the attention weights it computed, and for
\* each batch element the rows of its output that are not-a-number.
NoResult == [status |-> "pending", self_w |-> <<>>, cross_w |-> <<>>, out_nan |-> <<>>]
Raised == [status |-> "raised", self_w |-> <<>>, cross_w |-> <<>>, out_nan |-> <<>>]

\* MultiHeadAttention.forward / CausalSelfAttention.forward: the attention
\* weights [n][h][i][j], or "raised" when the causal masked_fill cannot
\* broadcast.  has_pad says whether pad_mask is given; qnan[n] and knan[n] are
\* the not-a-number rows of the query and key/value inputs.
AttentionForward(causal, ml, N, Tq, Tk, has_pad, pad, seed, qnan, knan) ==
  IF causal /\ ~CausalFillReturns(Tq, Tk, ml)
    THEN [status |-> "raised", weights |-> <<>>]
    ELSE [status |-> "returned",
          weights |->
            [n \in 1 .. N |-> [h \in Heads |->
               LET s0 == AttnScores(seed, n, h, Tq, Tk, qnan[n], knan[n])
                   s1 == IF has_pad THEN PadFill(s0, pad[n]) ELSE s0
                   s2 == IF causal
                           THEN CausalFill(s1, CausalSlice(Tril(ml), Tq, Tk))
                           ELSE s1
               IN [i \in 1 .. Tq |-> SoftmaxRow(s2[i])]]]]

\* Rows of A = attn_weights @ v that are not-a-number: a not-a-number weight in
\* the row, or any not-a-number value row (0 * nan is nan).
OutputNaNRows(w, n, Tq, Tk, knan) ==
  {i \in 1 .. Tq :
     \/ knan[n] # {}
     \/ \E h \in Heads, j \in 1 .. Tk : IsNaN(w[n][h][i][j])}

NoNaN(N) == [n \in 1 .. N |-> {}]

\* EncoderBlock.forward: x = ln1(x + mha(x, x, x, pad_mask)); the feed-forward
\* sublayer works row by row.  Returns the weights and the not-a-number rows.
EncoderBlockForward(ml, N, T, has_pad, pad, seed, xnan) ==
  LET r == AttentionForward(FALSE, ml, N, T, T, has_pad, pad, seed, xnan, xnan)
  IN [status |-> r.status, self_w |-> r.weights,
      xnan |-> [n \in 1 .. N |->
                  xnan[n] \cup OutputNaNRows(r.weights, n, T, T, xnan)]]

\* DecoderBlock.forward: causal self-attention with dec_mask, then
\* cross-attention of its normalised result over enc_output with enc_mask.
DecoderBlockForward(ml, N, T, Tenc, has_dec, dec_mask, has_enc, enc_mask, seed, xnan, encnan) ==
  LET r1 == AttentionForward(TRUE, ml, N, T, T, has_dec, dec_mask, seed,
                             xnan, xnan)
  IN IF r1.status = "raised"
       THEN [status |-> "raised", self_w |-> <<>>, cross_w |-> <<>>,
             xnan |-> xnan]
       ELSE LET x1 == [n \in 1 .. N |->
                         xnan[n] \cup OutputNaNRows(r1.weights, n, T, T, xnan)]
                r2 == AttentionForward(FALSE, ml, N, T, Tenc, has_enc,
                                       enc_mask, seed, x1, encnan)
            IN [status |-> "returned", self_w |-> r1.weights,
                cross_w |-> r2.weights,
                xnan |-> [n \in 1 .. N |->
                            x1[n] \cup OutputNaNRows(r2.weights, n, T, Tenc,
                                                     encnan)]]

\* for block in self.transformer_blocks: x = block(x, pad_mask)
RECURSIVE EncoderBlocks(_, _, _, _, _, _, _, _)
EncoderBlocks(k, ml, N, T, has_pad, pad, seed, acc) ==
  IF k = 0 THEN acc
  ELSE LET b == EncoderBlockForward(ml, N, T, has_pad, pad, seed, acc.xnan)
       IN EncoderBlocks(k - 1, ml, N, T, has_pad, pad, seed,
            [status |-> "returned", self_w |-> Append(acc.self_w, b.self_w),
             cross_w |-> <<>>, xnan |-> b.xnan])

\* Encoder.forward: embedding, positional encoding, the blocks, final norm.
EncoderForward(ml, N, T, has_pad, pad, seed) ==
  IF ~PositionalEncodingReturns(T, ml) THEN Raised
  ELSE LET r == EncoderBlocks(NLayers, ml, N, T, has_pad, pad, seed,
                  [status |-> "returned", self_w |-> <<>>, cross_w |-> <<>>,
                   xnan |-> NoNaN(N)])
       IN IF r.status = "raised" THEN Raised
          ELSE [status |-> r.status, self_w |-> r.self_w,
                cross_w |-> r.cross_w, out_nan |-> r.xnan]

\* for block in self.transformer_blocks: x = block(enc_output, x, enc_mask, dec_mask)
RECURSIVE DecoderBlocks(_, _, _, _, _, _, _, _, _, _, _)
DecoderBlocks(k, ml, N, T, Tenc, has_dec, dec_mask, has_enc, enc_mask, seed, acc) ==
  IF k = 0 \/ acc.status = "raised" THEN acc
  ELSE LET b == DecoderBlockForward(ml, N, T, Tenc, has_dec, dec_mask,
                                    has_enc, enc_mask, seed, acc.xnan,
                                    NoNaN(N))
       IN DecoderBlocks(k - 1, ml, N, T, Tenc, has_dec, dec_mask, has_enc,
            enc_mask, seed,
            IF b.status = "raised"
              THEN [status |-> "raised", self_w |-> <<>>, cross_w |-> <<>>,
                    xnan |-> acc.xnan]
              ELSE [status |-> "returned",
                    self_w |-> Append(acc.self_w, b.self_w),
                    cross_w |-> Append(acc.cross_w, b.cross_w),
                    xnan |-> b.xnan])

\* Decoder.forward (seq2seq): embedding, positional encoding, the blocks,
\* final norm and vocabulary projection.
DecoderForward(ml, N, T, Tenc, has_dec, dec_mask, has_enc, enc_mask, seed) ==
  IF ~PositionalEncodingReturns(T, ml) THEN Raised
  ELSE LET r == DecoderBlocks(NLayers, ml, N, T, Tenc, has_dec, dec_mask,
                  has_enc, enc_mask, seed,
                  [status |-> "returned", self_w |-> <<>>, cross_w |-> <<>>,
                   xnan |-> NoNaN(N)])
       IN IF r.status = "raised" THEN Raised
          ELSE [status |-> r.status, self_w |-> r.self_w,
                cross_w |-> r.cross_w, out_nan |-> r.xnan]

\* ------------------------------------ construction and data flow: the values

\* No model constructed yet, no forward call made, nothing computed.
NoNet == [kind |-> "none", d_k |-> 1, d_model |-> 1, n_heads |-> 1, status |-> "unbuilt", proj_in |-> 0, proj_heads |-> 0, proj_out |-> 0]
NoRun == [status |-> "none", ids |-> <<>>, step |-> 0, translation |-> <<>>, params |-> 0]
NoArgs == [enc |-> "omitted", has_enc_mask |-> FALSE, has_dec_mask |-> FALSE]
\* A call that starts now: it runs in the current mode, with the current
\* parameters.
NewFlow == [status |-> "pending", log |-> <<>>, x |-> 0, w |-> 0, res |-> 0, resw |-> 0, enc |-> 0, encw |-> 0, tr |-> training, params |-> weights]
NoFlow == [status |-> "pending", log |-> <<>>, x |-> 0, w |-> 0, res |-> 0, resw |-> 0, enc |-> 0, encw |-> 0, tr |-> FALSE, params |-> 0]

\* ------------------------------------------------------ single forward calls

Masks(N, T) == [1 .. N -> [1 .. T -> Bits]]
NoMask == <<>>

\* No forward call under way (the generation loop is modelled on its own).
NoCall == [kind |-> "none", max_len |-> 1, N |-> 1, T |-> 1, Tk |-> 1,
           has_mask |-> FALSE, mask |-> NoMask,
           has_enc_mask |-> FALSE, enc_mask |-> NoMask, seed |-> 0]

\* The calls of one kind: the module's max_len and the inputs of forward.
\* T is the length of the (decoder / query) input, Tk the length of the
\* encoder output where there is one; mask is the padding mask of the input
\* itself, enc_mask the mask of the encoder output.
PosCalls ==
  {[NoCall EXCEPT !.kind = "pos", !.max_len = ml, !.T = t] :
     ml \in 1 .. MaxLenCfg, t \in 1 .. MaxT}

SelfCallsOf(kind, ml, n, t) ==
  {[NoCall EXCEPT !.kind = kind, !.max_len = ml, !.N = n, !.T = t, !.Tk = t,
                  !.seed = sd] : sd \in Bits}
  \cup
  {[NoCall EXCEPT !.kind = kind, !.max_len = ml, !.N = n, !.T = t, !.Tk = t,
                  !.has_mask = TRUE, !.mask = m, !.seed = sd] :
     m \in Masks(n, t), sd \in Bits}

SelfCalls(kind) ==
  UNION {SelfCallsOf(kind, ml, n, t) :
           ml \in 1 .. MaxLenCfg, n \in BatchSizes, t \in 1 .. MaxT}

\* The calls in S, given an encoder output of length tk with or without a mask.
WithEncoderOutput(S, n, tk) ==
  {[c EXCEPT !.Tk = tk] : c \in S}
  \cup
  {[c EXCEPT !.Tk = tk, !.has_enc_mask = TRUE, !.enc_mask = em] :
     c \in S, em \in Masks(n, tk)}

CrossCallsOf(kind, ml, n, t, tk) ==
  WithEncoderOutput(SelfCallsOf(kind, ml, n, t), n, tk)

\* mha2 alone: query input of length T, encoder output of length Tk.
CrossCalls ==
  UNION {WithEncoderOutput({c \in SelfCallsOf("cross", 1, n, t) : ~c.has_mask},
                           n, tk) :
           n \in BatchSizes, t \in 1 .. MaxT, tk \in 1 .. MaxT}

\* Decoder block and decoder stack: one batch element.
BlockCalls(kind) ==
  UNION {CrossCallsOf(kind, ml, 1, t, tk) :
           ml \in 1 .. MaxLenCfg, t \in 1 .. MaxT, tk \in 1 .. MaxT}

FwdInit ==
  /\ mode = "translate"
  /\ pc = "forward"
  /\ max_len = 1
  /\ max_steps = 0
  /\ prompt = <<>>
  /\ enc_input = NoEncInput
  /\ enc_output = NoEncOutput
  /\ encoder_runs = 0
  /\ dec_input_ids = <<>>
  /\ dec_attn_mask = <<>>
  /\ dec_output = <<>>
  /\ prediction_id = <<>>
  /\ step = 0
  /\ calls = <<>>
  /\ translation = <<>>
  /\ fcall \in PosCalls \cup SelfCalls("self") \cup SelfCalls("causal")
                \cup CrossCalls \cup SelfCalls("encoder")
                \cup BlockCalls("block") \cup BlockCalls("decoder")
  /\ fres = NoResult
  /\ training = FALSE
  /\ net = NoNet
  /\ fargs = NoArgs
  /\ flow = NoFlow
  /\ fprev = NoFlow
  /\ weights = 0
  /\ first = NoRun
  /\ seen = {}

Pending(kind) == fres.status = "pending" /\ fcall.kind = kind

\* PositionalEncoding.forward(x), x of shape (N, T, d_model).
PositionalEncodingCall ==
  /\ Pending("pos")
  /\ fres' = IF PositionalEncodingReturns(fcall.T, fcall.max_len)
               THEN [NoResult EXCEPT !.status = "returned"]
               ELSE Raised
  /\ UNCHANGED <<genvars, fcall, flowvars, detvars>>

\* EncoderBlock.mha(x, x, x, pad_mask): MultiHeadAttention with causal=False.
SelfAttentionCall ==
  /\ Pending("self")
  /\ LET r == AttentionForward(FALSE, fcall.max_len, fcall.N, fcall.T, fcall.T,
                fcall.has_mask, fcall.mask, fcall.seed, NoNaN(fcall.N),
                NoNaN(fcall.N))
     IN fres' = [status |-> r.status, self_w |-> <<r.weights>>,
                 cross_w |-> <<>>,
                 out_nan |-> [n \in 1 .. fcall.N |->
                                OutputNaNRows(r.weights, n, fcall.T, fcall.T,
                                              NoNaN(fcall.N))]]
  /\ UNCHANGED <<genvars, fcall, flowvars, detvars>>

\* DecoderBlock.mha1(x, x, x, dec_mask) and CausalSelfAttention.forward.
CausalAttentionCall ==
  /\ Pending("causal")
  /\ LET r == AttentionForward(TRUE, fcall.max_len, fcall.N, fcall.T, fcall.T,
                fcall.has_mask, fcall.mask, fcall.seed, NoNaN(fcall.N),
                NoNaN(fcall.N))
     IN fres' = IF r.status = "raised" THEN Raised
                ELSE [status |-> "returned", self_w |-> <<r.weights>>,
                      cross_w |-> <<>>,
                      out_nan |-> [n \in 1 .. fcall.N |->
                                     OutputNaNRows(r.weights, n, fcall.T,
                                                   fcall.T, NoNaN(fcall.N))]]
  /\ UNCHANGED <<genvars, fcall, flowvars, detvars>>

\* DecoderBlock.mha2(x, enc_output, enc_output, enc_mask): causal=False.
CrossAttentionCall ==
  /\ Pending("cross")
  /\ LET r == AttentionForward(FALSE, fcall.max_len, fcall.N, fcall.T,
                fcall.Tk, fcall.has_enc_mask, fcall.enc_mask, fcall.seed,
                NoNaN(fcall.N), NoNaN(fcall.N))
     IN fres' = [status |-> r.status, self_w |-> <<>>,
                 cross_w |-> <<r.weights>>,
                 out_nan |-> [n \in 1 .. fcall.N |->
                                OutputNaNRows(r.weights, n, fcall.T, fcall.Tk,
                                              NoNaN(fcall.N))]]
  /\ UNCHANGED <<genvars, fcall, flowvars, detvars>>

\* DecoderBlock.forward(enc_output, dec_input, enc_mask, dec_mask).
DecoderBlockCall ==
  /\ Pending("block")
  /\ LET r == DecoderBlockForward(fcall.max_len, fcall.N, fcall.T, fcall.Tk,
                fcall.has_mask, fcall.mask, fcall.has_enc_mask,
                fcall.enc_mask, fcall.seed, NoNaN(fcall.N), NoNaN(fcall.N))
     IN fres' = IF r.status = "raised" THEN Raised
                ELSE [status |-> "returned", self_w |-> <<r.self_w>>,
                      cross_w |-> <<r.cross_w>>, out_nan |-> r.xnan]
  /\ UNCHANGED <<genvars, fcall, flowvars, detvars>>

\* Encoder.forward(x, pad_mask).
EncoderCall ==
  /\ Pending("encoder")
  /\ fres' = EncoderForward(fcall.max_len, fcall.N, fcall.T, fcall.has_mask,
                            fcall.mask, fcall.seed)
  /\ UNCHANGED <<genvars, fcall, flowvars, detvars>>

\* Decoder.forward(enc_output, dec_input, enc_mask, dec_mask).
DecoderCallFwd ==
  /\ Pending("decoder")
  /\ fres' = DecoderForward(fcall.max_len, fcall.N, fcall.T, fcall.Tk,
                            fcall.has_mask, fcall.mask, fcall.has_enc_mask,
                            fcall.enc_mask, fcall.seed)
  /\ UNCHANGED <<genvars, fcall, flowvars, detvars>>

FwdNext ==
  \/ PositionalEncodingCall
  \/ SelfAttentionCall
  \/ CausalAttentionCall
  \/ CrossAttentionCall
  \/ DecoderBlockCall
  \/ EncoderCall
  \/ DecoderCallFwd

FwdSpec == FwdInit /\ [][FwdNext]_vars

\* The forward calls made on a batch, as in the cell that tests the stacks on
\* a padded batch: the attention modules and the encoder stack on sequences
\* of up to MaxBatchT positions, and the decoder stack on a batch of two with
\* an encoder output of one position.
BatchedKinds == {"self", "causal", "cross", "encoder", "decoder"}

BatchDecoderCalls ==
  UNION {CrossCallsOf("decoder", MaxLenCfg, 2, t, 1) : t \in 1 .. MaxBatchT}

BatchCalls ==
  {c \in SelfCalls("self") \cup SelfCalls("causal") \cup CrossCalls
          \cup SelfCalls("encoder") :
     c.T <= MaxBatchT /\ c.Tk <= MaxBatchT}
  \cup BatchDecoderCalls

BatchInit ==
  /\ mode = "translate"
  /\ pc = "forward"
  /\ max_len = 1
  /\ max_steps = 0
  /\ prompt = <<>>
  /\ enc_input = NoEncInput
  /\ enc_output = NoEncOutput
  /\ encoder_runs = 0
  /\ dec_input_ids = <<>>
  /\ dec_attn_mask = <<>>
  /\ dec_output = <<>>
  /\ prediction_id = <<>>
  /\ step = 0
  /\ calls = <<>>
  /\ translation = <<>>
  /\ fcall \in BatchCalls
  /\ fres = NoResult
  /\ training = FALSE
  /\ net = NoNet
  /\ fargs = NoArgs
  /\ flow = NoFlow
  /\ fprev = NoFlow
  /\ weights = 0
  /\ first = NoRun
  /\ seen = {}

BatchNext ==
  \/ SelfAttentionCall
  \/ CausalAttentionCall
  \/ CrossAttentionCall
  \/ EncoderCall
  \/ DecoderCallFwd

BatchSpec == BatchInit /\ [][BatchNext]_vars

\* ------------------------------------------------ construction and data flow

\* The values a caller hands to forward; an operation's result is numbered
\* after them, in the order the operations run.
Arg == [none |-> 0, enc_input |-> 1, dec_input |-> 2, enc_mask |-> 3, dec_mask |-> 4, enc_output |-> 5]

\* x[..., start::2] of a last dimension of size n: its number of columns.
StridedCols(n, start) == IF n <= start THEN 0 ELSE (n - start + 1) \div 2

\* t[...] = v on the last dimension: v is expanded to the target's columns,
\* which a single column always can be, and more than one only to as many.
AssignBroadcasts(target, v) == v = target \/ v = 1

\* PositionalEncoding.__init__: exp_term = torch.arange(0, d_model, 2), so
\* position * div_term has as many columns as pe[0, :, 0::2]; it is assigned
\* to pe[0, :, 0::2] (sin) and to pe[0, :, 1::2] (cos).
PositionalEncodingBuilds(d_model) ==
  /\ AssignBroadcasts(StridedCols(d_model, 0), StridedCols(d_model, 0))
  /\ AssignBroadcasts(StridedCols(d_model, 1), StridedCols(d_model, 0))

\* __init__ of the attention modules: self.key, self.query and self.value are
\* nn.Linear(d_model, d_k * n_heads), self.fc is nn.Linear(d_k * n_heads,
\* d_model); the stacks pass d_k, d_model and n_heads down unchanged.  No
\* constructor compares d_model with d_k * n_heads.
\* Every stack builds a PositionalEncoding(d_model, max_len, dropout_prob); a
\* constructor that raises leaves no model.
Build(n) ==
  IF PositionalEncodingBuilds(n.d_model)
    THEN [n EXCEPT !.status = "built", !.proj_in = n.d_model,
                   !.proj_heads = n.d_k * n.n_heads, !.proj_out = n.d_model]
    ELSE [n EXCEPT !.status = "raised"]

\* The width (last dimension) of a tensor; 0 stands for "the operation raised"
\* and for the width of None.
\* nn.Linear(in, out) applied to an input of width w.
LinearWidth(in, out, w) == IF w = in THEN out ELSE 0

\* t.view(N, T, n_heads, d_k) of a tensor of width w.
ViewWidth(n_heads, d_k, w) == IF w # 0 /\ w = n_heads * d_k THEN w ELSE 0

\* An attention module that treats a missing key / value input as the query.
MhaWidth_MissingKeysAsQuery(m, wq, wkv) ==
  LinearWidth(m.proj_heads, m.proj_out,
    ViewWidth(m.n_heads, m.d_k, LinearWidth(m.proj_in, m.proj_heads, wq)))

\* MultiHeadAttention.forward(q, k, v, mask) on a query input of width wq and
\* a key / value input of width wkv: project, split into heads, attend, merge
\* the heads, project back with self.fc.
MhaWidth(m, wq, wkv) ==
  LET q == ViewWidth(m.n_heads, m.d_k, LinearWidth(m.proj_in, m.proj_heads, wq))
      k == ViewWidth(m.n_heads, m.d_k, LinearWidth(m.proj_in, m.proj_heads, wkv))
  IN IF q = 0 \/ k = 0 THEN 0 ELSE LinearWidth(m.proj_heads, m.proj_out, q)

\* a + b on the last dimension.
AddWidth(a, b) ==
  IF a = 0 \/ b = 0 \/ ~AddBroadcasts(a, b) THEN 0 ELSE IF a = 1 THEN b ELSE a

\* nn.LayerNorm(d_model) applied to an input of width w.
LayerNormWidth(d_model, w) == IF w = d_model THEN w ELSE 0

\* self.ann: Linear(d_model, 4 d_model), GELU, Linear(4 d_model, d_model), Dropout.
AnnWidth(d_model, w) ==
  LinearWidth(4 * d_model, d_model, LinearWidth(d_model, 4 * d_model, w))

\* nn.Dropout: the identity in eval mode (mask 0); in training mode the mask
\* it draws depends on the generator state rng and on how many operations
\* ran before it.
DropMask_AlwaysOn(tr, rng, k) == 1 + ((rng + k) % 2)
DropMask(tr, rng, k) == IF tr THEN 1 + ((rng + k) % 2) ELSE 0

\* One statement of a forward method: the module it applies (op), the block
\* it belongs to (layer, 0 outside the blocks), and the ids or mask argument
\* it is given.
Ins(op, layer, arg) == [op |-> op, layer |-> layer, arg |-> arg]

AttentionOps == {"mha", "causal_mha", "mha1", "mha2"}
NormOps == {"ln", "ln1", "ln2", "ln3"}
DropoutOps == {"pos_encoding", "ann", "dropout"}

\* The width of the result of statement ins in flow fl (0: it raises).
WidthAfter(m, fl, ins) ==
  CASE ins.op = "embedding" -> IF ins.arg = Arg.none THEN 0 ELSE m.d_model
    [] ins.op = "pos_encoding" -> AddWidth(fl.w, m.d_model)
    [] ins.op \in {"mha", "causal_mha", "mha1"} -> MhaWidth(m, fl.w, fl.w)
    [] ins.op = "mha2" -> MhaWidth(m, fl.w, fl.encw)
    [] ins.op = "add" -> AddWidth(fl.resw, fl.w)
    [] ins.op \in NormOps -> LayerNormWidth(m.d_model, fl.w)
    [] ins.op = "ann" -> AnnWidth(m.d_model, fl.w)
    [] ins.op = "fc" -> LinearWidth(m.d_model, VocabSize, fl.w)
    [] OTHER -> fl.w

\* The log entry of statement ins: the values it reads (a: the input or the
\* query, or the residual of an addition; b, c: key and value, or the second
\* summand), its mask, its dropout mask, and the value it produces.
Entry(tr, rng, fl, ins) ==
  [op |-> ins.op,
   layer |-> ins.layer,
   a |-> CASE ins.op = "embedding" -> ins.arg
           [] ins.op = "add" -> fl.res
           [] OTHER -> fl.x,
   b |-> CASE ins.op \in {"mha", "causal_mha", "mha1", "add"} -> fl.x
           [] ins.op = "mha2" -> fl.enc
           [] OTHER -> 0,
   c |-> CASE ins.op \in {"mha", "causal_mha", "mha1"} -> fl.x
           [] ins.op = "mha2" -> fl.enc
           [] OTHER -> 0,
   mask |-> IF ins.op \in AttentionOps THEN ins.arg ELSE 0,
   drop |-> IF ins.op \in DropoutOps THEN DropMask(tr, rng, Len(fl.log)) ELSE 0,
   out |-> Arg.enc_output + Len(fl.log) + 1]

\* Executing one statement: "enc_output = ..." keeps the current value as the
\* encoder output; every other statement applies its module to the current
\* value x.  An attention or feed-forward module leaves its input in res, the
\* summand of the residual addition that follows.  A raise ends the call.
Exec(m, tr, rng, fl, ins) ==
  IF fl.status = "raised" THEN fl
  ELSE IF ins.op = "enc_output" THEN [fl EXCEPT !.enc = fl.x, !.encw = fl.w]
  ELSE IF WidthAfter(m, fl, ins) = 0 THEN [fl EXCEPT !.status = "raised"]
  ELSE [fl EXCEPT !.log = Append(@, Entry(tr, rng, fl, ins)),
                  !.x = Arg.enc_output + Len(fl.log) + 1,
                  !.w = WidthAfter(m, fl, ins),
                  !.res = IF ins.op \in AttentionOps \cup {"ann"} THEN fl.x ELSE @,
                  !.resw = IF ins.op \in AttentionOps \cup {"ann"} THEN fl.w ELSE @]

\* The statements of prog from the i-th on, executed in order.
RECURSIVE Run(_, _, _, _, _, _)
Run(m, tr, rng, prog, i, fl) ==
  IF i > Len(prog) THEN fl
  ELSE CHOOSE r \in {Run(m, tr, rng, prog, i + 1, v) :
                       v \in {Exec(m, tr, rng, fl, prog[i])}} : TRUE

\* EncoderBlock.forward / TransformerBlock.forward, with attention module op:
\* x = ln1(x + mha(x, x, x, pad_mask)); x = ln2(x + ann(x)); x = dropout(x).
SelfBlockProgram(layer, op, mask) ==
  <<Ins(op, layer, mask), Ins("add", layer, 0), Ins("ln1", layer, 0),
    Ins("ann", layer, 0), Ins("add", layer, 0), Ins("ln2", layer, 0),
    Ins("dropout", layer, 0)>>

\* EncoderBlock.forward(x, pad_mask): self.mha is not causal.
EncoderBlockProgram(layer, mask) == SelfBlockProgram(layer, "mha", mask)

\* TransformerBlock.forward(x, pad_mask): self.mha is CausalSelfAttention.
TransformerBlockProgram(layer, mask) == SelfBlockProgram(layer, "causal_mha", mask)

\* A decoder block that runs cross-attention before self-attention.
DecoderBlockProgram_CrossFirst(layer, enc_mask, dec_mask) ==
  <<Ins("mha2", layer, enc_mask), Ins("add", layer, 0), Ins("ln2", layer, 0),
    Ins("mha1", layer, dec_mask), Ins("add", layer, 0), Ins("ln1", layer, 0),
    Ins("ann", layer, 0), Ins("add", layer, 0), Ins("ln3", layer, 0),
    Ins("dropout", layer, 0)>>

\* DecoderBlock.forward(enc_output, dec_input, enc_mask, dec_mask):
\* x = ln1(dec_input + mha1(dec_input, dec_input, dec_input, dec_mask));
\* x = ln2(x + mha2(x, enc_output, enc_output, enc_mask));
\* x = ln3(x + ann(x)); x = dropout(x).
DecoderBlockProgram(layer, enc_mask, dec_mask) ==
  <<Ins("mha1", layer, dec_mask), Ins("add", layer, 0), Ins("ln1", layer, 0),
    Ins("mha2", layer, enc_mask), Ins("add", layer, 0), Ins("ln2", layer, 0),
    Ins("ann", layer, 0), Ins("add", layer, 0), Ins("ln3", layer, 0),
    Ins("dropout", layer, 0)>>

\* for block in self.transformer_blocks: x = block(x, pad_mask)
RECURSIVE EncoderBlocksProgram(_, _)
EncoderBlocksProgram(k, mask) ==
  IF k = 0 THEN <<>>
  ELSE EncoderBlocksProgram(k - 1, mask) \o EncoderBlockProgram(k, mask)

\* Decoder.ipynb: for block in self.transformer_blocks: x = block(x, pad_mask)
RECURSIVE TransformerBlocksProgram(_, _)
TransformerBlocksProgram(k, mask) ==
  IF k = 0 THEN <<>>
  ELSE TransformerBlocksProgram(k - 1, mask) \o TransformerBlockProgram(k, mask)

\* A decoder stack that runs its blocks last to first.
RECURSIVE DecoderBlocksProgram_LastFirst(_, _, _)
DecoderBlocksProgram_LastFirst(k, enc_mask, dec_mask) ==
  IF k = 0 THEN <<>>
  ELSE DecoderBlockProgram(k, enc_mask, dec_mask)
         \o DecoderBlocksProgram_LastFirst(k - 1, enc_mask, dec_mask)

\* for block in self.transformer_blocks: x = block(enc_output, x, enc_mask, dec_mask)
RECURSIVE DecoderBlocksProgram(_, _, _)
DecoderBlocksProgram(k, enc_mask, dec_mask) ==
  IF k = 0 THEN <<>>
  ELSE DecoderBlocksProgram(k - 1, enc_mask, dec_mask)
         \o DecoderBlockProgram(k, enc_mask, dec_mask)

\* Encoder.forward(x, pad_mask): embedding, positional encoding, the blocks,
\* the final LayerNorm.
EncoderProgram(ids, mask) ==
  <<Ins("embedding", 0, ids), Ins("pos_encoding", 0, 0)>>
    \o EncoderBlocksProgram(NLayers, mask) \o <<Ins("ln", 0, 0)>>

\* Decoder.forward(enc_output, dec_input, enc_mask, dec_mask) of the seq2seq
\* model: embedding, positional encoding, the blocks, LayerNorm, self.fc.
DecoderProgram(ids, enc_mask, dec_mask) ==
  <<Ins("embedding", 0, ids), Ins("pos_encoding", 0, 0)>>
    \o DecoderBlocksProgram(NLayers, enc_mask, dec_mask)
    \o <<Ins("ln", 0, 0), Ins("fc", 0, 0)>>

\* Decoder.forward(x, pad_mask) of the decoder-only model.
LmDecoderProgram(ids, mask) ==
  <<Ins("embedding", 0, ids), Ins("pos_encoding", 0, 0)>>
    \o TransformerBlocksProgram(NLayers, mask)
    \o <<Ins("ln", 0, 0), Ins("fc", 0, 0)>>

\* A Transformer.forward that hands the decoder's mask to cross-attention.
TransformerProgram_DecMaskInCross(enc_ids, dec_ids, enc_mask, dec_mask) ==
  EncoderProgram(enc_ids, enc_mask) \o <<Ins("enc_output", 0, 0)>>
    \o DecoderProgram(dec_ids, dec_mask, dec_mask)

\* Transformer.forward(enc_input, dec_input, enc_mask, dec_mask):
\* enc_output = self.encoder(enc_input, enc_mask), then
\* self.decoder(enc_output, dec_input, enc_mask, dec_mask).
TransformerProgram(enc_ids, dec_ids, enc_mask, dec_mask) ==
  EncoderProgram(enc_ids, enc_mask) \o <<Ins("enc_output", 0, 0)>>
    \o DecoderProgram(dec_ids, enc_mask, dec_mask)

\* The flow a call starts from when it is handed the encoder output enc, of
\* width wenc.
GivenEncoderOutput(fl, enc, wenc) == [fl EXCEPT !.enc = enc, !.encw = wenc]

\* return x: the call returns unless an operation raised.
Return(fl) ==
  IF fl.status = "raised" THEN fl ELSE [fl EXCEPT !.status = "returned"]

\* A mask argument that is given, or None.
MaskArg(has, id) == IF has THEN id ELSE Arg.none

\* The models to construct: every kind, with every combination of dimensions.
NetKinds == {"encoder", "decoder", "lm", "transformer"}
NetsToBuild ==
  {[NoNet EXCEPT !.kind = k, !.d_k = dk, !.d_model = dm, !.n_heads = h] :
     k \in NetKinds, dk \in 1 .. MaxDk, dm \in 1 .. MaxDModel, h \in 1 .. NHeads}

\* How a caller may try to hand an encoder output to forward: the seq2seq
\* decoder is given a tensor, None, or no enc_output at all; the decoder-only
\* model is called as usual or with an encoder output as an extra argument.
EncArgsOf(kind) ==
  CASE kind = "decoder" -> {"tensor", "none", "omitted"}
    [] kind = "lm" -> {"omitted", "tensor"}
    [] OTHER -> {"omitted"}

ArgsOf(kind) ==
  {[enc |-> e, has_enc_mask |-> a, has_dec_mask |-> b] :
     e \in EncArgsOf(kind),
     a \in (IF kind = "lm" THEN {FALSE} ELSE BOOLEAN),
     b \in (IF kind = "encoder" THEN {FALSE} ELSE BOOLEAN)}

\* Python binds the call's arguments to forward's parameters: enc_output is a
\* required parameter of the seq2seq Decoder.forward, and the decoder-only
\* Decoder.forward(x, pad_mask=None) has no parameter for it (TypeError).
ForwardBinds(kind, enc) ==
  CASE kind = "decoder" -> enc # "omitted"
    [] kind = "lm" -> enc = "omitted"
    [] OTHER -> TRUE

\* The generator states that make a difference to a call: nn.Dropout reads
\* the generator in training mode only.
Rngs(tr) == IF tr THEN Bits ELSE {0}

FlowInit ==
  /\ mode = "translate"
  /\ pc = "forward"
  /\ max_len = 1
  /\ max_steps = 0
  /\ prompt = <<>>
  /\ enc_input = NoEncInput
  /\ enc_output = NoEncOutput
  /\ encoder_runs = 0
  /\ dec_input_ids = <<>>
  /\ dec_attn_mask = <<>>
  /\ dec_output = <<>>
  /\ prediction_id = <<>>
  /\ step = 0
  /\ calls = <<>>
  /\ translation = <<>>
  /\ fcall = NoCall
  /\ fres = NoResult
  /\ training = FALSE
  /\ net \in NetsToBuild
  /\ fargs \in ArgsOf(net.kind)
  /\ flow = NoFlow
  /\ fprev = NoFlow
  /\ weights = 0
  /\ first = NoRun
  /\ seen = {}

\* Encoder(...), Decoder(...), Transformer(encoder, decoder): construction.
\* nn.Module.__init__ sets training = True; the parameters are the initial
\* ones.
Construct ==
  /\ net.status = "unbuilt"
  /\ net.kind \in NetKinds
  /\ net' = Build(net)
  /\ training' = (net'.status = "built")
  /\ UNCHANGED <<genvars, fwdvars, detvars, fargs, flow, fprev>>

\* A state with models to train or to switch to eval mode: the model of a
\* forward call once built, or the models of a generation loop between runs.
ModelExists == net.status = "built" \/ (net.kind = "none" /\ pc = "start")

\* The notebook the models belong to.
InDecoderOnly == net.kind = "lm" \/ (net.kind = "none" /\ mode = "lm")

\* model.eval(): dropout becomes the identity.
EvalMode ==
  /\ ModelExists
  /\ training' = FALSE
  /\ UNCHANGED <<genvars, fwdvars, detvars, net, fargs, flow, fprev>>

\* The first batch of the training loader whose forward call raises (0: no
\* batch does).  train of the seq2seq notebook calls
\* model(enc_input, dec_input, enc_mask, dec_mask): an Encoder takes no four
\* arguments, and a Decoder is handed the encoder's ids where it expects the
\* encoder's output, so each raises on its first batch.  A Transformer or the
\* decoder-only model raises on a batch longer than max_len or holding an id
\* outside the embedding table.
RaisingBatches(kind, batches) ==
  IF kind \in {"encoder", "decoder"} THEN {Min(1, batches)} ELSE 0 .. batches

\* The calls of optimizer.step() that train makes: one per batch of every
\* epoch, up to the batch whose forward call raises.
StepsOfTrain(epochs, batches, raising) ==
  IF epochs = 0 THEN 0
  ELSE IF raising > 0 THEN raising - 1
  ELSE epochs * batches

\* The mode train leaves the model in.  Every epoch starts with
\* model.train(); a raise in the batch loop leaves the function there.  An
\* epoch of the seq2seq notebook goes on with model.eval() for the validation
\* pass (a raise in that pass leaves the model in eval mode as well), an epoch
\* of the decoder-only notebook does not.
ModeAfterTrain(epochs, raising) ==
  IF epochs = 0 THEN training
  ELSE IF raising > 0 THEN TRUE
  ELSE InDecoderOnly

\* train(model, criterion, optimizer, train_loader, ..., epochs) on a loader
\* of so many batches.  Parameters that optimizer.step() changed select ids
\* of their own, and a run made before is no run of theirs.
Train ==
  /\ ModelExists
  /\ \E epochs \in 0 .. MaxEpochs, batches \in 0 .. MaxBatches :
       \E raising \in RaisingBatches(net.kind, batches) :
         LET stepped == StepsOfTrain(epochs, batches, raising) > 0
         IN /\ stepped => weights < MaxTrainings
            /\ training' = ModeAfterTrain(epochs, raising)
            /\ weights' = IF stepped THEN weights + 1 ELSE weights
            /\ seen' = IF stepped THEN {} ELSE seen
            /\ first' = IF stepped THEN NoRun ELSE first
  /\ UNCHANGED <<genvars, fwdvars, net, fargs, flow, fprev>>

CanCall(kind) ==
  net.status = "built" /\ net.kind = kind /\ flow.status = "pending"

\* encoder(enc_input_ids, enc_mask).  Every call starts from whatever state
\* the random generator is in (rng), in eval mode as in training mode.
EncoderFlowCall ==
  /\ CanCall("encoder")
  /\ \E rng \in Bits :
       flow' = Return(Run(net, training, rng,
                         EncoderProgram(Arg.enc_input,
                           MaskArg(fargs.has_enc_mask, Arg.enc_mask)),
                         1, NewFlow))
  /\ UNCHANGED <<genvars, fwdvars, detvars, training, net, fargs, fprev>>

\* decoder(enc_output, dec_input_ids, enc_mask, dec_mask)
DecoderFlowCall ==
  /\ CanCall("decoder")
  /\ \E rng \in Bits :
       flow' = IF ~ForwardBinds(net.kind, fargs.enc)
                 THEN [NewFlow EXCEPT !.status = "raised"]
                 ELSE Return(Run(net, training, rng,
                        DecoderProgram(Arg.dec_input,
                          MaskArg(fargs.has_enc_mask, Arg.enc_mask),
                          MaskArg(fargs.has_dec_mask, Arg.dec_mask)),
                        1,
                        IF fargs.enc = "tensor"
                          THEN GivenEncoderOutput(NewFlow, Arg.enc_output,
                                                  net.d_model)
                          ELSE GivenEncoderOutput(NewFlow, Arg.none, 0)))
  /\ UNCHANGED <<genvars, fwdvars, detvars, training, net, fargs, fprev>>

\* model(input_ids, mask) of the decoder-only notebook
LmDecoderFlowCall ==
  /\ CanCall("lm")
  /\ \E rng \in Bits :
       flow' = IF ~ForwardBinds(net.kind, fargs.enc)
                 THEN [NewFlow EXCEPT !.status = "raised"]
                 ELSE Return(Run(net, training, rng,
                        LmDecoderProgram(Arg.dec_input,
                          MaskArg(fargs.has_dec_mask, Arg.dec_mask)),
                        1, NewFlow))
  /\ UNCHANGED <<genvars, fwdvars, detvars, training, net, fargs, fprev>>

\* transformer(enc_input_ids, dec_input_ids, enc_mask, dec_mask)
TransformerFlowCall ==
  /\ CanCall("transformer")
  /\ \E rng \in Bits :
       flow' = Return(Run(net, training, rng,
                         TransformerProgram(Arg.enc_input, Arg.dec_input,
                           MaskArg(fargs.has_enc_mask, Arg.enc_mask),
                           MaskArg(fargs.has_dec_mask, Arg.dec_mask)),
                         1, NewFlow))
  /\ UNCHANGED <<genvars, fwdvars, detvars, training, net, fargs, fprev>>

\* The caller repeats the call with the same model and the same arguments.
CallAgain ==
  /\ flow.status \in {"returned", "raised"}
  /\ fprev.status = "pending"
  /\ fprev' = flow
  /\ flow' = NoFlow
  /\ UNCHANGED <<genvars, fwdvars, detvars, training, net, fargs>>

FlowNext ==
  \/ Construct
  \/ EncoderFlowCall
  \/ DecoderFlowCall
  \/ LmDecoderFlowCall
  \/ TransformerFlowCall
  \/ CallAgain
  \/ EvalMode
  \/ Train

FlowSpec == FlowInit /\ [][FlowNext]_vars

\* ------------------------------------------------------ the generation loop

StartId == VocabSize - 1   \* 65_001, the last id of the vocabulary

\* The id that ends each loop.
EndId(m) == IF m = "lm" THEN SepTokenId ELSE EosId

\* range(32) in the seq2seq loops, range(20) in the decoder-only loop.
StepsOf(m) == IF m = "lm" THEN MaxSteps - 1 ELSE MaxSteps

\* Initial decoder sequences: the start token followed by n-1 ordinary ids.
PromptOfLen(n) == [i \in 1 .. n |-> IF i = 1 THEN StartId ELSE 1]
PromptsOf(m) ==
  IF m = "translate" THEN {PromptOfLen(1)}
  ELSE {PromptOfLen(n) : n \in 1 .. MaxPrompt}

\* tokenizer(...)['attention_mask'][:, :-1] of a single unpadded text: ones.
PromptMask(ids) == [i \in 1 .. Len(ids) |-> 1]

\* tokenizer(sentence, return_tensors='pt'): n ids ending in </s>, mask of ones.
EncInputOfLen(n) ==
  [input_ids |-> [i \in 1 .. n |-> IF i = n THEN EosId ELSE 1],
   attention_mask |-> [i \in 1 .. n |-> 1]]
EncInputsOf(m) ==
  IF m = "lm" THEN {NoEncInput} ELSE {EncInputOfLen(n) : n \in 1 .. MaxEnc}

\* torch.argmax over one row of logits: the first index holding the maximum.
RECURSIVE ArgMaxFrom(_, _, _)
ArgMaxFrom(row, v, best) ==
  IF v > VocabSize - 1 THEN best
  ELSE ArgMaxFrom(row, v + 1, IF row[v] > row[best] THEN v ELSE best)
\* An arg-max that counts the indices from 1.
ArgMax_FromOne(row) == ArgMaxFrom(row, 1, 0) + 1
ArgMax(row) == ArgMaxFrom(row, 1, 0)

\* dec_output[:, -1, :]
LastPosition_First(out) == out[1]
LastPosition(out) == out[Len(out)]

\* for _ in range(n): a further iteration starts while fewer than n are done.
LoopContinues_OffByOne(s, n) == s <= n
LoopContinues(s, n) == s < n

\* if prediction_id == 0: break   (tokenizer.sep_token_id in Decoder.ipynb)
Breaks_Never(p, m) == FALSE
Breaks(p, m) == p[1] = EndId(m)

\* A loop that overwrites the last id instead of appending.
HStack_Overwrite(ids, p) == SubSeq(ids, 1, Len(ids) - 1) \o p

\* torch.hstack((dec_input_ids, prediction_id.view(1, 1))): p holds one id.
HStack(ids, p) == ids \o p

\* torch.ones_like(dec_input_ids)
OnesLike_Stale(ids) == [i \in 1 .. (Len(ids) - 1) |-> 1]
OnesLike(ids) == [i \in 1 .. Len(ids) |-> 1]

\* The logits a decoder call returns for T positions: row r at the last
\* position, the complementary row everywhere else.
DecOutputOf(T, r) ==
  [t \in 1 .. T |-> IF t = T THEN r ELSE [v \in Vocab |-> 1 - r[v]]]

\* The arguments of one decoder call.
DecoderCall(eo, ids, em, dm) ==
  [enc_output |-> eo, dec_input |-> ids, enc_mask |-> em, dec_mask |-> dm]

\* enc_input['attention_mask']; the decoder-only model takes no encoder mask.
EncMaskArg == enc_input.attention_mask

\* self.embedding(dec_input), nn.Embedding(vocab_size, d_model): the lookup
\* returns when every id is an index of the table, and raises IndexError
\* otherwise.
EmbeddingReturns(ids) == \A i \in 1 .. Len(ids) : ids[i] \in Vocab

\* Decoder.forward on the id sequence ids: the embedding lookup is its first
\* statement, the positional encoding and the blocks follow.
DecoderAccepts(ids, ml) ==
  /\ EmbeddingReturns(ids)
  /\ DecoderReturns(Len(ids), ml)

Init ==
  /\ mode \in Modes
  /\ pc = "start"
  /\ max_len \in 1 .. MaxLenCfg
  /\ max_steps = StepsOf(mode)
  /\ prompt \in PromptsOf(mode)
  /\ enc_input \in EncInputsOf(mode)
  /\ enc_output = NoEncOutput
  /\ encoder_runs = 0
  /\ dec_input_ids = <<>>
  /\ dec_attn_mask = <<>>
  /\ dec_output = <<>>
  /\ prediction_id = <<>>
  /\ step = 0
  /\ calls = <<>>
  /\ translation = <<>>
  /\ fcall = NoCall
  /\ fres = NoResult
  /\ training = FALSE
  /\ net = NoNet
  /\ fargs = NoArgs
  /\ flow = NoFlow
  /\ fprev = NoFlow
  /\ weights = 0
  /\ first = NoRun
  /\ seen = {}

\* A run starts.  Where runs are repeated and compared, a second run that
\* starts under dropout is compared with nothing: after its start the first
\* run and the calls made so far stand for nothing.  A single run leaves the
\* three variables as they are.
RunStarts ==
  /\ UNCHANGED weights
  /\ IF training /\ first.status \in {"done", "raised"}
       THEN first' = [NoRun EXCEPT !.status = "dropout"] /\ seen' = {}
       ELSE UNCHANGED <<first, seen>>

\* translate lines 973-978: run the encoder, then set up the initial decoder
\* input (the start token) and its mask.  A raising encoder call ends the
\* function.
TranslateSetup ==
  /\ pc = "start"
  /\ UNCHANGED <<fwdvars, flowvars>>
  /\ RunStarts
  /\ mode = "translate"
  /\ encoder_runs' = encoder_runs + 1
  /\ IF EncoderReturns(Len(enc_input.input_ids), max_len)
       THEN /\ enc_output' = [src |-> enc_input, run |-> encoder_runs + 1]
            /\ dec_input_ids' = prompt
            /\ dec_attn_mask' = OnesLike(prompt)
            /\ pc' = "loop"
       ELSE /\ pc' = "raised"
            /\ UNCHANGED <<enc_output, dec_input_ids, dec_attn_mask>>
  /\ UNCHANGED <<mode, max_len, max_steps, prompt, enc_input, dec_output,
                 prediction_id, step, calls, translation>>

\* Decoder.ipynb lines 598-604: the prompt without its final SEP, and its mask.
LmSetup ==
  /\ pc = "start"
  /\ UNCHANGED <<fwdvars, flowvars>>
  /\ RunStarts
  /\ mode = "lm"
  /\ dec_input_ids' = prompt
  /\ dec_attn_mask' = PromptMask(prompt)
  /\ pc' = "loop"
  /\ UNCHANGED <<mode, max_len, max_steps, prompt, enc_input, enc_output,
                 encoder_runs, dec_output, prediction_id, step, calls,
                 translation>>

\* Encoder_Decoder.ipynb, the cell at 862-869: output = transformer(...) on
\* the tokenized sentence and the start sequence.  Transformer.forward runs
\* the encoder and hands its output, with both masks, to the decoder.  A
\* raising call ends the execution of the notebook.  The logits it returns
\* (output) are read by the allclose cell at 913 only and are not kept.
CellTransformer ==
  /\ pc = "start"
  /\ UNCHANGED <<fwdvars, flowvars>>
  /\ RunStarts
  /\ mode = "cell"
  /\ encoder_runs' = encoder_runs + 1
  /\ IF EncoderReturns(Len(enc_input.input_ids), max_len)
       THEN /\ calls' = Append(calls,
                  DecoderCall([src |-> enc_input, run |-> encoder_runs + 1],
                              prompt, EncMaskArg, PromptMask(prompt)))
            /\ pc' = IF DecoderAccepts(prompt, max_len) THEN "cell_encoder"
                     ELSE "raised"
       ELSE /\ pc' = "raised"
            /\ UNCHANGED calls
  /\ UNCHANGED <<mode, max_len, max_steps, prompt, enc_input, enc_output,
                 dec_input_ids, dec_attn_mask, dec_output, prediction_id,
                 step, translation>>

\* The cell at 888: enc_output = encoder(enc_input['input_ids'],
\* enc_input['attention_mask']), a second run of the encoder.
CellEncoder ==
  /\ pc = "cell_encoder"
  /\ UNCHANGED <<fwdvars, flowvars, detvars>>
  /\ encoder_runs' = encoder_runs + 1
  /\ IF EncoderReturns(Len(enc_input.input_ids), max_len)
       THEN /\ enc_output' = [src |-> enc_input, run |-> encoder_runs + 1]
            /\ pc' = "cell_decoder"
       ELSE /\ pc' = "raised"
            /\ UNCHANGED enc_output
  /\ UNCHANGED <<mode, max_len, max_steps, prompt, enc_input, dec_input_ids,
                 dec_attn_mask, dec_output, prediction_id, step, calls,
                 translation>>

\* The cell at 898-903: dec_output = decoder(enc_output, the start sequence,
\* enc_input['attention_mask'], the start sequence's mask).  The allclose cell
\* at 913 that follows assigns nothing.
DecoderCell ==
  /\ pc = "cell_decoder"
  /\ UNCHANGED <<fwdvars, flowvars>>
  /\ calls' = Append(calls,
        DecoderCall(enc_output, prompt, EncMaskArg, PromptMask(prompt)))
  /\ IF DecoderAccepts(prompt, max_len)
       THEN /\ \E r \in Rows : dec_output' = DecOutputOf(Len(prompt), r)
            /\ pc' = "cell_inputs"
       ELSE /\ pc' = "raised"
            /\ UNCHANGED dec_output
  /\ UNCHANGED <<mode, max_len, max_steps, prompt, enc_input, enc_output,
                 encoder_runs, dec_input_ids, dec_attn_mask, prediction_id,
                 step, translation>>

CellDecoder == DecoderCell /\ UNCHANGED detvars

\* Lines 922-923, the head of the loop cell: the start sequence without its
\* final </s>, and its mask.
CellInputs ==
  /\ pc = "cell_inputs"
  /\ UNCHANGED <<fwdvars, flowvars, detvars>>
  /\ dec_input_ids' = prompt
  /\ dec_attn_mask' = PromptMask(prompt)
  /\ pc' = "loop"
  /\ UNCHANGED <<mode, max_len, max_steps, prompt, enc_input, enc_output,
                 encoder_runs, dec_output, prediction_id, step, calls,
                 translation>>

\* A decoder call of the loop that runs the encoder again first.
CallReturns_ReEncodes ==
  /\ pc = "loop"
  /\ UNCHANGED <<fwdvars, flowvars>>
  /\ LoopContinues(step, max_steps)
  /\ DecoderAccepts(dec_input_ids, max_len)
  /\ calls' = Append(calls,
        DecoderCall(enc_output, dec_input_ids, EncMaskArg, dec_attn_mask))
  /\ \E r \in Rows : dec_output' = DecOutputOf(Len(dec_input_ids), r)
  /\ pc' = "argmax"
  /\ encoder_runs' = encoder_runs + 1
  /\ enc_output' = IF mode = "lm" THEN enc_output
                   ELSE [src |-> enc_input, run |-> encoder_runs + 1]
  /\ UNCHANGED <<mode, max_len, max_steps, prompt, enc_input, dec_input_ids,
                 dec_attn_mask, prediction_id, step, translation>>

\* The for statement starts a further iteration, and the decoder call that
\* opens the loop body (lines 981-987; Decoder.ipynb 606-607) returns its
\* logits.
CallReturns ==
  /\ pc = "loop"
  /\ UNCHANGED <<fwdvars, flowvars>>
  /\ LoopContinues(step, max_steps)
  /\ DecoderAccepts(dec_input_ids, max_len)
  /\ calls' = Append(calls,
        DecoderCall(enc_output, dec_input_ids, EncMaskArg, dec_attn_mask))
  /\ \E r \in Rows : dec_output' = DecOutputOf(Len(dec_input_ids), r)
  /\ pc' = "argmax"
  /\ UNCHANGED <<mode, max_len, max_steps, prompt, enc_input, enc_output,
                 encoder_runs, dec_input_ids, dec_attn_mask, prediction_id,
                 step, translation>>

\* The call by itself: no run is recorded for comparison.
Call == CallReturns /\ UNCHANGED detvars

\* The decoder call of a further iteration raises (IndexError in the embedding
\* lookup, or a shape error after it): the exception leaves the loop and the
\* cell / function.
CallRaises ==
  /\ pc = "loop"
  /\ UNCHANGED <<fwdvars, flowvars, detvars>>
  /\ LoopContinues(step, max_steps)
  /\ ~DecoderAccepts(dec_input_ids, max_len)
  /\ calls' = Append(calls,
        DecoderCall(enc_output, dec_input_ids, EncMaskArg, dec_attn_mask))
  /\ pc' = "raised"
  /\ UNCHANGED <<mode, max_len, max_steps, prompt, enc_input, enc_output,
                 encoder_runs, dec_input_ids, dec_attn_mask, dec_output,
                 prediction_id, step, translation>>

\* Line 990: prediction_id = torch.argmax(dec_output[:, -1, :], axis=-1).
Select ==
  /\ pc = "argmax"
  /\ UNCHANGED <<fwdvars, flowvars, detvars>>
  /\ prediction_id' = <<ArgMax(LastPosition(dec_output))>>
  /\ pc' = "hstack"
  /\ UNCHANGED <<mode, max_len, max_steps, prompt, enc_input, enc_output,
                 encoder_runs, dec_input_ids, dec_attn_mask, dec_output,
                 step, calls, translation>>

\* Line 993: dec_input_ids = torch.hstack((dec_input_ids, prediction_id.view(1, 1))).
AppendId ==
  /\ pc = "hstack"
  /\ UNCHANGED <<fwdvars, flowvars, detvars>>
  /\ dec_input_ids' = HStack(dec_input_ids, prediction_id)
  /\ pc' = "ones_like"
  /\ UNCHANGED <<mode, max_len, max_steps, prompt, enc_input, enc_output,
                 encoder_runs, dec_attn_mask, dec_output, prediction_id,
                 step, calls, translation>>

\* Line 996: dec_attn_mask = torch.ones_like(dec_input_ids).
Remask ==
  /\ pc = "ones_like"
  /\ UNCHANGED <<fwdvars, flowvars, detvars>>
  /\ dec_attn_mask' = OnesLike(dec_input_ids)
  /\ pc' = "break"
  /\ UNCHANGED <<mode, max_len, max_steps, prompt, enc_input, enc_output,
                 encoder_runs, dec_input_ids, dec_output, prediction_id,
                 step, calls, translation>>

\* Lines 999-1000: the iteration ends; on the end id, break leaves the loop.
BreakTest ==
  /\ pc = "break"
  /\ UNCHANGED <<fwdvars, flowvars, detvars>>
  /\ step' = step + 1
  /\ pc' = IF Breaks(prediction_id, mode) THEN "decode" ELSE "loop"
  /\ UNCHANGED <<mode, max_len, max_steps, prompt, enc_input, enc_output,
                 encoder_runs, dec_input_ids, dec_attn_mask, dec_output,
                 prediction_id, calls, translation>>

\* range(...) is exhausted: the for loop ends without a break.
LoopExit ==
  /\ pc = "loop"
  /\ UNCHANGED <<fwdvars, flowvars, detvars>>
  /\ ~LoopContinues(step, max_steps)
  /\ pc' = "decode"
  /\ UNCHANGED <<mode, max_len, max_steps, prompt, enc_input, enc_output,
                 encoder_runs, dec_input_ids, dec_attn_mask, dec_output,
                 prediction_id, step, calls, translation>>

\* The ids handed to tokenizer.decode: translate drops the first id
\* (dec_input_ids[0, 1:]); the two notebook cells pass the whole sequence.
DecodeArg_Whole(m, ids) == ids
DecodeArg(m, ids) == IF m = "translate" THEN Tail(ids) ELSE ids

Decode ==
  /\ pc = "decode"
  /\ UNCHANGED <<fwdvars, flowvars, detvars>>
  /\ translation' = DecodeArg(mode, dec_input_ids)
  /\ pc' = "done"
  /\ UNCHANGED <<mode, max_len, max_steps, prompt, enc_input, enc_output,
                 encoder_runs, dec_input_ids, dec_attn_mask, dec_output,
                 prediction_id, step, calls>>

Next ==
  \/ TranslateSetup
  \/ LmSetup
  \/ CellTransformer
  \/ CellEncoder
  \/ CellDecoder
  \/ CellInputs
  \/ Call
  \/ CallRaises
  \/ Select
  \/ AppendId
  \/ Remask
  \/ BreakTest
  \/ LoopExit
  \/ Decode

Spec == Init /\ [][Next]_vars

\* The loop is sequential code: an enabled step is taken.
FairSpec == Spec /\ WF_vars(Next)

\* ------------------------------------------------- ids and the embedding table

\* The initial sequence p with an id the table does not have at position i.
WithForeignId(p, i) == [p EXCEPT ![i] = VocabSize]

\* The initial sequences a loop may be started from: those of the notebooks,
\* and the same with one id that is not below the decoder's vocab_size.
StartSequencesOf(m) ==
  PromptsOf(m)
    \cup UNION {{WithForeignId(p, i) : i \in 1 .. Len(p)} : p \in PromptsOf(m)}

VocabInit ==
  /\ mode \in Modes
  /\ pc = "start"
  /\ max_len \in 1 .. MaxLenCfg
  /\ max_steps = StepsOf(mode)
  /\ prompt \in StartSequencesOf(mode)
  /\ enc_input \in EncInputsOf(mode)
  /\ enc_output = NoEncOutput
  /\ encoder_runs = 0
  /\ dec_input_ids = <<>>
  /\ dec_attn_mask = <<>>
  /\ dec_output = <<>>
  /\ prediction_id = <<>>
  /\ step = 0
  /\ calls = <<>>
  /\ translation = <<>>
  /\ fcall = NoCall
  /\ fres = NoResult
  /\ training = FALSE
  /\ net = NoNet
  /\ fargs = NoArgs
  /\ flow = NoFlow
  /\ fprev = NoFlow
  /\ weights = 0
  /\ first = NoRun
  /\ seen = {}

\* The same loops, started from any of these sequences.
VocabSpec == VocabInit /\ [][Next]_vars

\* ------------------------------------------------------ repeated calls and runs

\* What Decoder.forward computes its logits from: the parameters, the call's
\* arguments (of the encoder output, the input it was computed from) and the
\* dropout masks drawn during the call.
KeyOf(c, drop) ==
  [src |-> c.enc_output.src, dec_input |-> c.dec_input,
   enc_mask |-> c.enc_mask, dec_mask |-> c.dec_mask,
   params |-> weights, drop |-> drop]

\* The logits of the last position, as far as the loop reads them: high at
\* the id they select, low elsewhere.
RowOf(id) == [v \in Vocab |-> IF v = id THEN 1 ELSE 0]

\* The encoder inputs of the repeated runs: the shortest sentence.
ShortEncInputsOf(m) == {e \in EncInputsOf(m) : Len(e.input_ids) <= 1}

\* Their start sequences: the start token by itself.
ShortPromptsOf(m) == {p \in PromptsOf(m) : Len(p) <= 1}

\* Their max_len: one that the sequences of a run outgrow, so that a decoder
\* call raises, and the largest, which they fit.
RunMaxLens == {2, MaxLenCfg}

\* The start of a generation run with freshly constructed models, in training
\* mode or switched to eval mode, or of a forward call.
DetInit ==
  \/ /\ mode \in Modes
     /\ pc = "start"
     /\ max_len \in RunMaxLens
     /\ max_steps = StepsOf(mode)
     /\ prompt \in ShortPromptsOf(mode)
     /\ enc_input \in ShortEncInputsOf(mode)
     /\ enc_output = NoEncOutput
     /\ encoder_runs = 0
     /\ dec_input_ids = <<>>
     /\ dec_attn_mask = <<>>
     /\ dec_output = <<>>
     /\ prediction_id = <<>>
     /\ step = 0
     /\ calls = <<>>
     /\ translation = <<>>
     /\ fcall = NoCall
     /\ fres = NoResult
     /\ training \in BOOLEAN
     /\ net = NoNet
     /\ fargs = NoArgs
     /\ flow = NoFlow
     /\ fprev = NoFlow
     /\ weights = 0
     /\ first = NoRun
     /\ seen = {}
  \/ FlowInit

\* The modules of Decoder.forward draw nothing at random but the dropout
\* masks: the call that has just returned, on the dropout masks drop, selects
\* what an earlier call with the same parameters, arguments and dropout masks
\* selected; a call unlike every earlier one may select any id.
Computes(drop) ==
  LET key == KeyOf(calls'[Len(calls')], drop)
      id == ArgMax(LastPosition(dec_output'))
      known == {k \in seen : k.key = key}
  IN /\ LastPosition(dec_output') = RowOf(id)
     /\ IF known = {} THEN seen' = seen \cup {[key |-> key, id |-> id]}
        ELSE (\A k \in known : k.id = id) /\ seen' = seen

\* The decoder(...) cell, its logits computed from the call's inputs; the
\* dropout masks are drawn anew in every call in training mode, and are the
\* identity in eval mode.
DetCellDecoder ==
  /\ DecoderCell
  /\ UNCHANGED <<weights, first>>
  /\ IF pc' = "raised" THEN UNCHANGED seen
     ELSE \E rng \in Bits : Computes(DropMask(training, rng, Len(calls)))

\* The decoder call of the loop, likewise.
DetCall ==
  /\ CallReturns
  /\ UNCHANGED <<weights, first>>
  /\ \E rng \in Bits : Computes(DropMask(training, rng, Len(calls)))

\* The run is over; the same loop is run again from the same start sequence
\* and encoder input, with the same models.  A run with dropout disabled is
\* kept to compare the next one with; of a run under dropout, that it was made.
RunAgain ==
  /\ pc \in {"done", "raised"}
  /\ first.status = "none"
  /\ first' = IF training THEN [NoRun EXCEPT !.status = "dropout"]
              ELSE [status |-> pc, ids |-> dec_input_ids, step |-> step,
                    translation |-> translation, params |-> weights]
  /\ pc' = "start"
  /\ enc_output' = NoEncOutput
  /\ dec_input_ids' = <<>>
  /\ dec_attn_mask' = <<>>
  /\ dec_output' = <<>>
  /\ prediction_id' = <<>>
  /\ step' = 0
  /\ calls' = <<>>
  /\ translation' = <<>>
  /\ UNCHANGED <<mode, max_len, max_steps, prompt, enc_input, encoder_runs,
                 fwdvars, flowvars, weights>>
  /\ seen' = IF training THEN {} ELSE seen

DetNext ==
  \/ TranslateSetup
  \/ LmSetup
  \/ CellTransformer
  \/ CellEncoder
  \/ DetCellDecoder
  \/ CellInputs
  \/ DetCall
  \/ CallRaises
  \/ Select
  \/ AppendId
  \/ Remask
  \/ BreakTest
  \/ LoopExit
  \/ Decode
  \/ RunAgain
  \/ FlowNext

DetSpec == DetInit /\ [][DetNext]_vars

\* ---------------------------------------------- generation loop: properties

\* The ids appended by the steps so far, in order.
Generated == SubSeq(dec_input_ids, Len(prompt) + 1, Len(dec_input_ids))
Halted == pc \in {"done", "raised"}

\* The decoder calls made before the loop is entered: in the notebook cells,
\* that of transformer(...) and that of the decoder(...) cell.
PreLoopCalls(m) == IF m = "cell" THEN 2 ELSE 0

\* The decoder calls the loop has made so far, in order.
LoopCalls ==
  IF Len(calls) <= PreLoopCalls(mode) THEN <<>>
  ELSE SubSeq(calls, PreLoopCalls(mode) + 1, Len(calls))

\* The loop's initial sequence and mask are set up.
LoopEntered == dec_input_ids # <<>>

\* Every decoder call so far was given at most max_len positions.
CallsFit == \A c \in 1 .. Len(calls) : Len(calls[c].dec_input) <= max_len

\* C1: whatever the decoder returns, the loop makes at most max_steps decoder
\* calls (the calls of the cells before the loop not counted), the id sequence
\* never holds more than L0 + max_steps ids (L0 the length of the initial
\* sequence; max_steps + 1 in translate, which starts from the single start
\* token), and the run ends.
C1_BoundedAndTerminates ==
  /\ [](/\ Len(LoopCalls) <= max_steps
        /\ Len(calls) <= PreLoopCalls(mode) + max_steps
        /\ step <= max_steps
        /\ Len(dec_input_ids) <= Len(prompt) + max_steps
        /\ (mode = "translate" => Len(dec_input_ids) <= max_steps + 1))
  /\ <>Halted

\* C1 witness: a run that used every step and ended with L0 + max_steps ids.
C1_Witness ==
  /\ pc = "done"
  /\ Len(LoopCalls) = max_steps
  /\ Len(dec_input_ids) = Len(prompt) + max_steps

\* The same in the notebook cells, after the two decoder calls before the loop.
C1_WitnessCell ==
  /\ C1_Witness
  /\ mode = "cell"
  /\ Len(calls) = max_steps + 2

\* C2 as stated: in every completed run the end id is among the produced ids
\* exactly when fewer than max_steps ids were generated (read here on the runs
\* whose decoder inputs all fit max_len).
C2_Original ==
  (pc = "done" /\ CallsFit) =>
    ((\E k \in 1 .. Len(Generated) : Generated[k] = EndId(mode))
       <=> Len(Generated) < max_steps)

\* C2 amended: in every run that has ended, fewer than max_steps ids were
\* generated exactly when the end id was produced at a step before step
\* max_steps or a call raised; an end id produced at step max_steps ends the
\* run with exactly max_steps ids generated, and no run generates more.
C2_HaltsEarlyIffEndBeforeLastOrRaised ==
  Halted =>
    /\ (Len(Generated) < max_steps
          <=> \/ pc = "raised"
              \/ \E k \in 1 .. Len(Generated) :
                   k < max_steps /\ Generated[k] = EndId(mode))
    /\ Len(Generated) <= max_steps
    /\ (pc = "done" => Len(Generated) >= 1)

\* C2 witness: a completed run cut short by the end id.
C2_Witness ==
  /\ pc = "done"
  /\ Len(Generated) < max_steps
  /\ Generated[Len(Generated)] = EndId(mode)

\* A run cut short by a raising decoder call of the loop, no end id produced.
C2_WitnessRaised ==
  /\ pc = "raised"
  /\ Len(LoopCalls) >= 2
  /\ Len(Generated) >= 1
  /\ \A k \in 1 .. Len(Generated) : Generated[k] # EndId(mode)

\* A run that produced the end id at its last step, with max_steps ids.
C2_WitnessLastStep ==
  /\ pc = "done"
  /\ Len(Generated) = max_steps
  /\ Generated[Len(Generated)] = EndId(mode)

\* C6: an iteration calls the decoder on the entire current id sequence,
\* selects the id whose logit at the last position of the returned logits is
\* the highest, and appends exactly that id; earlier ids are unchanged, no
\* other statement changes the sequence, and the sequence an iteration leaves
\* is the input of the next iteration's decoder call.
C6_StepAppendsArgMaxOfLast ==
  [][/\ (pc = "loop" /\ pc' = "argmax") =>
          /\ Len(calls') = Len(calls) + 1
          /\ SubSeq(calls', 1, Len(calls)) = calls
          /\ calls'[Len(calls')].dec_input = dec_input_ids
          /\ Len(dec_output') = Len(dec_input_ids)
          /\ dec_input_ids' = dec_input_ids
          /\ (LoopCalls # <<>> =>
                dec_input_ids = Append(LoopCalls[Len(LoopCalls)].dec_input,
                                       prediction_id[1]))
     /\ pc = "argmax" =>
          /\ LET row == dec_output[Len(dec_input_ids)]
             IN \E p \in Vocab : /\ prediction_id' = <<p>>
                                 /\ \A v \in Vocab : row[p] >= row[v]
          /\ dec_input_ids' = dec_input_ids
          /\ calls' = calls
     /\ pc = "hstack" =>
          /\ dec_input_ids' = Append(dec_input_ids, prediction_id[1])
          /\ dec_input_ids'[1] = prompt[1]
          /\ prediction_id' = prediction_id
          /\ calls' = calls
     /\ pc \in {"ones_like", "break"} =>
          /\ dec_input_ids' = dec_input_ids
          /\ calls' = calls]_vars

\* C6 witness: two chained iterations, the second on the first's sequence.
C6_Witness ==
  /\ step >= 2
  /\ Len(LoopCalls) >= 2
  /\ LoopCalls[1].dec_input = prompt
  /\ LoopCalls[2].dec_input = Append(prompt, dec_input_ids[Len(prompt) + 1])

\* The mask is all ones, of length n.
MaskIsOnes(n) == dec_attn_mask = [i \in 1 .. n |-> 1]

\* C7 as stated: in every state of the loop the decoder padding mask has the
\* length of the decoder id sequence and is 1 everywhere.
C7_Original == LoopEntered => MaskIsOnes(Len(dec_input_ids))

\* C7 amended: the mask every decoder call receives has the length of the
\* ids it receives and is 1 everywhere, and so has the current mask in every
\* state of the loop but one: between the append (hstack) and the statement
\* that recomputes the mask (ones_like) the mask is 1 everywhere and one
\* entry shorter than the id sequence.
C7_MaskAllOnesOnceRecomputed ==
  /\ (LoopEntered /\ pc # "ones_like") => MaskIsOnes(Len(dec_input_ids))
  /\ pc = "ones_like" => MaskIsOnes(Len(dec_input_ids) - 1)
  /\ \A c \in 1 .. Len(calls) :
       /\ Len(calls[c].dec_mask) = Len(calls[c].dec_input)
       /\ \A i \in 1 .. Len(calls[c].dec_mask) : calls[c].dec_mask[i] = 1

\* C7 witness: the mask was recomputed after the first append and handed to
\* the second decoder call of the loop; the second id has been appended and
\* the mask is not yet recomputed.
C7_Witness ==
  /\ pc = "ones_like"
  /\ step = 1
  /\ Len(dec_input_ids) = Len(prompt) + 2
  /\ MaskIsOnes(Len(prompt) + 1)
  /\ Len(LoopCalls) = 2
  /\ LoopCalls[2].dec_mask = dec_attn_mask

\* C8: in the encoder-conditioned loops the encoder output the loop uses is
\* computed before the loop; from the loop's entry on no step runs the
\* encoder or changes the encoder output or the encoder mask, the encoder
\* output is the one of the last encoder run, on the encoder input, and every
\* decoder call of the loop receives that encoder output and that mask.  In
\* translate that run is the only one.
C8_EncoderFixed ==
  [][(mode # "lm" /\ LoopEntered) =>
       /\ enc_output' = enc_output
       /\ enc_input' = enc_input
       /\ encoder_runs' = encoder_runs
       /\ enc_output.run = encoder_runs
       /\ enc_output.src = enc_input
       /\ (mode = "translate" => encoder_runs = 1)
       /\ \A c \in 1 .. Len(LoopCalls') :
            /\ LoopCalls'[c].enc_output = enc_output
            /\ LoopCalls'[c].enc_mask = enc_input.attention_mask]_vars

\* C8 witness: an encoder-conditioned run with several decoder calls.
C8_Witness ==
  /\ mode # "lm"
  /\ Len(LoopCalls) >= 2
  /\ enc_output.run = encoder_runs
  /\ LoopCalls[1].enc_output = enc_output
  /\ LoopCalls[2].enc_output = enc_output

\* The same in the notebook cells: the encoder ran in the transformer(...)
\* cell and in the encoder(...) cell, and the loop's calls received the
\* output of the latter.
C8_WitnessCell ==
  /\ C8_Witness
  /\ mode = "cell"
  /\ encoder_runs = 2
  /\ calls[1].enc_output.run = 1
  /\ LoopCalls[2].enc_output.run = 2

\* C9 as stated: the output of every generation loop is the final id sequence
\* without its first element, which is exactly the ids the steps appended
\* (read here on the runs whose decoder inputs all fit max_len).
C9_Original ==
  (pc = "done" /\ CallsFit) =>
    /\ translation = Tail(dec_input_ids)
    /\ translation = Generated

\* C9 amended: translate decodes the final id sequence without its first
\* element (the start token), which is exactly the ids its steps appended, in
\* order; the decoder-only loop and the loop in the cell before translate
\* decode the whole final sequence, initial ids included.
C9_OutputPerLoop ==
  pc = "done" =>
    IF mode = "translate"
      THEN /\ translation = Tail(dec_input_ids)
           /\ translation = Generated
      ELSE /\ translation = dec_input_ids
           /\ SubSeq(translation, 1, Len(prompt)) = prompt

\* C9 witness: translate finished after appending at least two ids.
C9_Witness ==
  /\ pc = "done"
  /\ mode = "translate"
  /\ Len(translation) >= 2
  /\ translation[1] = dec_input_ids[2]

\* The loop of the notebook cells finished: the whole sequence was decoded.
C9_WitnessCell ==
  /\ pc = "done"
  /\ mode = "cell"
  /\ Len(calls) >= 4
  /\ translation = prompt \o Generated

\* ------------------------------------------------- forward calls: properties

Returned == fres.status = "returned"

\* The call runs causal self-attention (alone, in a decoder block, in the stack).
HasCausal == fcall.kind \in {"causal", "block", "decoder"}
\* The call runs cross-attention over an encoder output.
HasCross == fcall.kind \in {"cross", "block", "decoder"}

\* Every batch element's padding mask, where given, keeps at least one position.
MasksKeepAKey ==
  /\ fcall.has_mask =>
       \A n \in 1 .. fcall.N : \E j \in 1 .. fcall.T : fcall.mask[n][j] = 1
  /\ fcall.has_enc_mask =>
       \A n \in 1 .. fcall.N : \E j \in 1 .. fcall.Tk : fcall.enc_mask[n][j] = 1

\* C3 as stated: in every causal self-attention call, for every layer, batch
\* element and head, the weight from query i to key j is 0 whenever j > i, and
\* the causal mask blocks no key j <= i.
C3_CausalExact ==
  (Returned /\ HasCausal) =>
    \A l \in DOMAIN fres.self_w : \A n \in 1 .. fcall.N : \A h \in Heads :
      \A i \in 1 .. fcall.T : \A j \in 1 .. fcall.T :
        /\ (j > i => IsZero(fres.self_w[l][n][h][i][j]))
        /\ (j <= i =>
              CausalEntry(CausalSlice(Tril(fcall.max_len), fcall.T, fcall.T),
                          i, j) = 1)

\* C4 as stated: in every attention call given a padding mask, the weight at
\* every key whose mask value is 0 is exactly 0, for every query and head
\* (read here on the calls whose masks each keep at least one position).
C4_PaddedKeysZero ==
  (Returned /\ MasksKeepAKey) =>
    /\ fcall.has_mask =>
         \A l \in DOMAIN fres.self_w : \A n \in 1 .. fcall.N : \A h \in Heads :
           \A i \in 1 .. fcall.T : \A j \in 1 .. fcall.T :
             fcall.mask[n][j] = 0 => IsZero(fres.self_w[l][n][h][i][j])
    /\ fcall.has_enc_mask =>
         \A l \in DOMAIN fres.cross_w : \A n \in 1 .. fcall.N : \A h \in Heads :
           \A i \in 1 .. fcall.T : \A j \in 1 .. fcall.Tk :
             fcall.enc_mask[n][j] = 0 => IsZero(fres.cross_w[l][n][h][i][j])

\* C5 as stated: in decoder cross-attention the keys a decoder query attends
\* to are exactly the encoder positions whose encoder mask is 1: a padded
\* encoder position gets weight exactly 0 for every decoder query, and every
\* valid encoder position j, also j > i, gets a positive weight (read here on
\* the calls whose masks each keep at least one position).
C5_CrossAttendsValidKeys ==
  (Returned /\ HasCross /\ fcall.has_enc_mask /\ MasksKeepAKey) =>
    \A l \in DOMAIN fres.cross_w : \A n \in 1 .. fcall.N : \A h \in Heads :
      \A i \in 1 .. fcall.T : \A j \in 1 .. fcall.Tk :
        /\ (fcall.enc_mask[n][j] = 0 => IsZero(fres.cross_w[l][n][h][i][j]))
        /\ (fcall.enc_mask[n][j] = 1 => IsPositive(fres.cross_w[l][n][h][i][j]))

\* C10 as stated: a forward call (positional encoder, encoder stack, decoder
\* stack, causal attention) on more than max_len positions does not return.
C10_FailsFast ==
  (fres.status # "pending"
     /\ fcall.kind \in {"pos", "encoder", "decoder", "causal", "block"}
     /\ fcall.T > fcall.max_len)
    => fres.status = "raised"

\* Query position i of batch element n has every key of the call's
\* self-attention closed by the padding mask and / or the causal mask.
SelfRowClosed(n, i) ==
  \A j \in 1 .. fcall.T :
    \/ fcall.has_mask /\ fcall.mask[n][j] = 0
    \/ /\ HasCausal
       /\ CausalEntry(CausalSlice(Tril(fcall.max_len), fcall.T, fcall.T),
                      i, j) = 0

\* Every encoder position is closed by the encoder mask of batch element n.
CrossRowClosed(n) ==
  fcall.has_enc_mask /\ \A j \in 1 .. fcall.Tk : fcall.enc_mask[n][j] = 0

\* C11 as stated: where a query row has its whole key side masked, the call
\* produces a defined result: no attention weight of a returned call is
\* not-a-number and no row of its output is not-a-number.
C11_AllMaskedRowDefined ==
  Returned =>
    /\ \A l \in DOMAIN fres.self_w : \A n \in 1 .. fcall.N : \A h \in Heads :
         \A i \in 1 .. fcall.T : \A j \in 1 .. fcall.T :
           ~IsNaN(fres.self_w[l][n][h][i][j])
    /\ \A l \in DOMAIN fres.cross_w : \A n \in 1 .. fcall.N : \A h \in Heads :
         \A i \in 1 .. fcall.T : \A j \in 1 .. fcall.Tk :
           ~IsNaN(fres.cross_w[l][n][h][i][j])
    /\ \A n \in DOMAIN fres.out_nan : fres.out_nan[n] = {}

RECURSIVE SumNum(_, _)
SumNum(wrow, j) == IF j = 0 THEN 0 ELSE SumNum(wrow, j - 1) + wrow[j].num

\* The weights of one query row sum to 1.
SumsToOne(wrow) == wrow[1].den > 0 /\ SumNum(wrow, Len(wrow)) = wrow[1].den

\* C17 as stated: in every returned call, at every query position whose keys
\* are not all masked (neither in self-attention nor in cross-attention), the
\* attention weights over the keys sum to 1, for every layer, batch element
\* and head (read here on the calls whose masks each keep at least one
\* position).
C17_RowsSumToOne ==
  (Returned /\ MasksKeepAKey) =>
    \A n \in 1 .. fcall.N : \A i \in 1 .. fcall.T :
      (~SelfRowClosed(n, i) /\ ~CrossRowClosed(n)) =>
        /\ \A l \in DOMAIN fres.self_w : \A h \in Heads :
             SumsToOne(fres.self_w[l][n][h][i])
        /\ \A l \in DOMAIN fres.cross_w : \A h \in Heads :
             SumsToOne(fres.cross_w[l][n][h][i])

\* ----------------------------------- construction and data flow: properties

\* The model's dimensions do not satisfy d_model = n_heads x d_k.
DimsMismatch == net.d_model # net.n_heads * net.d_k

\* C12 as stated: a model whose d_model differs from n_heads x d_k is rejected
\* by its constructor: it is never built, and so no forward call of it ever
\* starts, raises or returns.
C12_MismatchRejected ==
  DimsMismatch => (net.status # "built" /\ flow.status = "pending")

FlowFinished == flow.status \in {"returned", "raised"}

\* The entries of the finished call's log that apply module op.
EntriesOf(op) == {k \in 1 .. Len(flow.log) : flow.log[k].op = op}

\* C13: a call of the seq2seq decoder without an encoder output (None, or no
\* argument at all) raises, and a call that returns ran cross-attention over
\* the encoder output in every block; a call of the decoder-only model that is
\* handed an encoder output raises, and a call that returns read none.
C13_ModesExclusive ==
  /\ (net.kind = "decoder" /\ FlowFinished /\ fargs.enc # "tensor")
       => flow.status = "raised"
  /\ (net.kind = "decoder" /\ flow.status = "returned")
       => \A l \in 1 .. NLayers :
            \E k \in EntriesOf("mha2") :
              /\ flow.log[k].layer = l
              /\ flow.log[k].b = Arg.enc_output
              /\ flow.log[k].c = Arg.enc_output
  /\ (net.kind = "lm" /\ FlowFinished /\ fargs.enc # "omitted")
       => flow.status = "raised"
  /\ (net.kind = "lm" /\ flow.status = "returned")
       => /\ EntriesOf("mha2") = {}
          /\ \A k \in 1 .. Len(flow.log) :
               Arg.enc_output \notin {flow.log[k].a, flow.log[k].b, flow.log[k].c}

\* A seq2seq decoder called with enc_output = None: self-attention of the first
\* block ran, then cross-attention raised.
C13_Witness ==
  /\ net.kind = "decoder"
  /\ fargs.enc = "none"
  /\ flow.status = "raised"
  /\ EntriesOf("mha1") # {}
  /\ EntriesOf("mha2") = {}

\* The two stacks run by hand from generator state rng, with the call's masks,
\* in the mode and with the parameters of the call:
\* enc_output = encoder(enc_input, enc_mask), then
\* decoder(enc_output, dec_input, enc_mask, dec_mask).
ByHand(rng) ==
  LET e == Return(Run(net, flow.tr, rng,
                      EncoderProgram(Arg.enc_input,
                                     MaskArg(fargs.has_enc_mask, Arg.enc_mask)),
                      1, [NoFlow EXCEPT !.tr = flow.tr, !.params = flow.params]))
  IN IF e.status = "raised" THEN e
     ELSE Return(Run(net, flow.tr, rng,
                     DecoderProgram(Arg.dec_input,
                                    MaskArg(fargs.has_enc_mask, Arg.enc_mask),
                                    MaskArg(fargs.has_dec_mask, Arg.dec_mask)),
                     1, GivenEncoderOutput(e, e.x, e.w)))

\* C14: a finished Transformer.forward call is the encoder call followed by
\* the decoder call on its output, operation for operation, and the caller's
\* encoder mask is the mask of every encoder self-attention and of every
\* decoder cross-attention (the decoder mask that of decoder self-attention).
C14_TransformerIsEncoderThenDecoder ==
  (net.kind = "transformer" /\ FlowFinished) =>
    /\ \E rng \in Rngs(flow.tr) : flow = ByHand(rng)
    /\ \A k \in EntriesOf("mha") \cup EntriesOf("mha2") :
         flow.log[k].mask = MaskArg(fargs.has_enc_mask, Arg.enc_mask)
    /\ \A k \in EntriesOf("mha1") :
         flow.log[k].mask = MaskArg(fargs.has_dec_mask, Arg.dec_mask)

\* A Transformer.forward call with both masks given returned, and its
\* cross-attention read the encoder's final output under the encoder mask.
C14_Witness ==
  /\ net.kind = "transformer"
  /\ flow.status = "returned"
  /\ fargs.has_enc_mask /\ fargs.has_dec_mask
  /\ \E k \in EntriesOf("mha2"), j \in EntriesOf("ln") :
       /\ flow.log[k].mask = Arg.enc_mask
       /\ flow.log[j].out = flow.log[k].b
       /\ flow.log[j].out = flow.enc

\* ------------------------------------------------ batch elements: properties

\* The result the forward call c returns.
ResultOf(c) ==
  CASE c.kind = "encoder" ->
         EncoderForward(c.max_len, c.N, c.T, c.has_mask, c.mask, c.seed)
    [] c.kind = "decoder" ->
         DecoderForward(c.max_len, c.N, c.T, c.Tk, c.has_mask, c.mask,
                        c.has_enc_mask, c.enc_mask, c.seed)
    [] c.kind = "cross" ->
         LET r == AttentionForward(FALSE, c.max_len, c.N, c.T, c.Tk,
                    c.has_enc_mask, c.enc_mask, c.seed, NoNaN(c.N), NoNaN(c.N))
         IN [status |-> r.status, self_w |-> <<>>, cross_w |-> <<r.weights>>,
             out_nan |-> [n \in 1 .. c.N |->
                            OutputNaNRows(r.weights, n, c.T, c.Tk, NoNaN(c.N))]]
    [] OTHER ->
         LET r == AttentionForward(c.kind = "causal", c.max_len, c.N, c.T, c.T,
                    c.has_mask, c.mask, c.seed, NoNaN(c.N), NoNaN(c.N))
         IN IF r.status = "raised" THEN Raised
            ELSE [status |-> "returned", self_w |-> <<r.weights>>,
                  cross_w |-> <<>>,
                  out_nan |-> [n \in 1 .. c.N |->
                                 OutputNaNRows(r.weights, n, c.T, c.T, NoNaN(c.N))]]

\* What a result holds for batch element n.
ElementOf(res, n) ==
  IF res.status # "returned"
    THEN [status |-> res.status, self_w |-> <<>>, cross_w |-> <<>>, out_nan |-> {}]
    ELSE [status |-> "returned",
          self_w |-> [l \in DOMAIN res.self_w |-> res.self_w[l][n]],
          cross_w |-> [l \in DOMAIN res.cross_w |-> res.cross_w[l][n]],
          out_nan |-> res.out_nan[n]]

\* The call on batch element n of c alone: its rows (the scores of element n
\* of seed s are those of element 1 of seed s + n - 1) and its masks.
ElementAlone(c, n) ==
  [c EXCEPT !.N = 1,
            !.seed = (c.seed + n - 1) % 2,
            !.mask = IF c.has_mask THEN <<c.mask[n]>> ELSE NoMask,
            !.enc_mask = IF c.has_enc_mask THEN <<c.enc_mask[n]>> ELSE NoMask]

\* The call c with batch element n kept and the other element's masks
\* replaced by m and em.
OtherChanged(c, n, m, em) ==
  [c EXCEPT !.mask = IF c.has_mask THEN [c.mask EXCEPT ![3 - n] = m] ELSE NoMask,
            !.enc_mask = IF c.has_enc_mask
                           THEN [c.enc_mask EXCEPT ![3 - n] = em] ELSE NoMask]

\* Masks to give the other element instead (none where no mask is given): no
\* position padded, and every position padded.
OtherMasks(has, T) ==
  IF has THEN {[j \in 1 .. T |-> 1], [j \in 1 .. T |-> 0]} ELSE {NoMask}

\* The call c of two elements with the elements in the other order.
Swapped(c) ==
  [c EXCEPT !.seed = (c.seed + 1) % 2,
            !.mask = IF c.has_mask THEN <<c.mask[2], c.mask[1]>> ELSE NoMask,
            !.enc_mask = IF c.has_enc_mask
                           THEN <<c.enc_mask[2], c.enc_mask[1]>> ELSE NoMask]

\* C15: what a batched forward call (attention module, encoder or decoder stack)
\* returns for element n is what the call on element n alone returns, whatever
\* the other element is; it stays the same with the other element's mask
\* replaced, and with the two elements in the other order.
C15_BatchElementsIndependent ==
  (fres.status # "pending" /\ fcall.kind \in BatchedKinds) =>
    /\ fres = ResultOf(fcall)
    /\ \A n \in 1 .. fcall.N :
         ElementOf(fres, n) = ElementOf(ResultOf(ElementAlone(fcall, n)), 1)
    /\ fcall.N = 2 =>
         \A n \in 1 .. 2 :
           /\ ElementOf(ResultOf(Swapped(fcall)), 3 - n) = ElementOf(fres, n)
           /\ \A m \in OtherMasks(fcall.has_mask, fcall.T),
                 em \in OtherMasks(fcall.has_enc_mask, fcall.Tk) :
                ElementOf(ResultOf(OtherChanged(fcall, n, m, em)), n)
                  = ElementOf(fres, n)

\* A decoder call on two elements with different padding masks returned
\* different attention weights for the two.
C15_Witness ==
  /\ fcall.kind = "decoder"
  /\ fcall.N = 2
  /\ fcall.has_mask
  /\ fcall.mask[1] # fcall.mask[2]
  /\ fres.status = "returned"
  /\ ElementOf(fres, 1) # ElementOf(fres, 2)

\* ------------------------------------------ repeated calls and runs: properties

\* What a run of the loop has produced so far.
RunResult ==
  [status |-> pc, ids |-> dec_input_ids, step |-> step,
   translation |-> translation, params |-> weights]

IsPrefix(a, b) == Len(a) <= Len(b) /\ a = SubSeq(b, 1, Len(a))

\* Both forward calls ran with dropout disabled and the same parameters.
SameModelCalls ==
  /\ fprev.status # "pending"
  /\ FlowFinished
  /\ ~fprev.tr
  /\ ~flow.tr
  /\ fprev.params = flow.params

\* Both runs of the loop have dropout disabled and the same parameters.
SameModelRuns ==
  /\ first.status \in {"done", "raised"}
  /\ ~training
  /\ first.params = weights

C16_WitnessForward ==
  /\ SameModelCalls
  /\ flow.params > 0
  /\ fprev.status = "returned"
  /\ flow.status = "returned"

\* --------------------------------------------- order of operations: properties

Seq2SeqDecoders == {"decoder", "transformer"}

\* The operations of one decoder block, in the order of C18.
DecoderBlockOps ==
  <<"mha1", "add", "ln1", "mha2", "add", "ln2", "ann", "add", "ln3", "dropout">>

\* The part of the log written by the decoder stack: from the embedding of
\* the decoder's ids on.
DecoderLog ==
  LET start == CHOOSE k \in 1 .. Len(flow.log) :
                 flow.log[k].op = "embedding" /\ flow.log[k].a = Arg.dec_input
  IN SubSeq(flow.log, start, Len(flow.log))

\* The decoder's log entries of block l, in the order they ran.
EntriesOfLayer(l) == SelectSeq(DecoderLog, LAMBDA en : en.layer = l)

\* The entries b of one decoder block read and produce the values C18 says:
\* self-attention of the block's input under the decoder mask, cross-attention
\* with the normalized result as query and the encoder output enc as key and
\* value under the encoder mask, feed-forward; each added to its input and
\* normalized; the block's dropout on the last normalization.
DecoderBlockWired(b, enc) ==
  /\ [k \in 1 .. Len(b) |-> b[k].op] = DecoderBlockOps
  /\ b[1].b = b[1].a /\ b[1].c = b[1].a
  /\ b[1].mask = MaskArg(fargs.has_dec_mask, Arg.dec_mask)
  /\ b[2].a = b[1].a /\ b[2].b = b[1].out
  /\ b[3].a = b[2].out
  /\ b[4].a = b[3].out /\ b[4].b = enc /\ b[4].c = enc
  /\ b[4].mask = MaskArg(fargs.has_enc_mask, Arg.enc_mask)
  /\ b[5].a = b[3].out /\ b[5].b = b[4].out
  /\ b[6].a = b[5].out
  /\ b[7].a = b[6].out
  /\ b[8].a = b[6].out /\ b[8].b = b[7].out
  /\ b[9].a = b[8].out
  /\ b[10].a = b[9].out

\* C18: in a seq2seq decoder call that returned, every block ran causal
\* self-attention (decoder mask), then cross-attention (query: the normalized
\* result of self-attention; key and value: the encoder output; encoder mask),
\* then feed-forward, each followed by the residual addition and its
\* LayerNorm, and the block's dropout once, as the last operation.
C18_DecoderBlockOrder ==
  (net.kind \in Seq2SeqDecoders /\ flow.status = "returned") =>
    \A l \in 1 .. NLayers : DecoderBlockWired(EntriesOfLayer(l), flow.enc)

\* A seq2seq decoder call in training mode with both masks returned: the
\* first block's cross-attention read the encoder output under the encoder
\* mask, and its final dropout drew a mask.
C18_Witness ==
  /\ net.kind = "decoder"
  /\ flow.status = "returned"
  /\ flow.tr
  /\ fargs.has_enc_mask /\ fargs.has_dec_mask
  /\ EntriesOfLayer(1)[4].b = Arg.enc_output
  /\ EntriesOfLayer(1)[4].mask = Arg.enc_mask
  /\ EntriesOfLayer(1)[10].drop # 0

\* The operations of a whole stack of kind k, in the order of C19.
RECURSIVE Repeated(_, _)
Repeated(ops, n) == IF n = 0 THEN <<>> ELSE Repeated(ops, n - 1) \o ops

EncoderBlockOps(att) == <<att, "add", "ln1", "ann", "add", "ln2", "dropout">>

StackOps(k) ==
  CASE k = "encoder" ->
         <<"embedding", "pos_encoding">>
           \o Repeated(EncoderBlockOps("mha"), NLayers) \o <<"ln">>
    [] k = "lm" ->
         <<"embedding", "pos_encoding">>
           \o Repeated(EncoderBlockOps("causal_mha"), NLayers) \o <<"ln", "fc">>
    [] OTHER ->
         <<"embedding", "pos_encoding">>
           \o Repeated(DecoderBlockOps, NLayers) \o <<"ln", "fc">>

\* The layer each operation of a stack with blocks of n operations belongs to
\* (0: outside the blocks), blocks in construction order.
LayerAt(i, n) ==
  IF i <= 2 \/ i > 2 + n * NLayers THEN 0 ELSE ((i - 3) \div n) + 1

\* The log lg is one pass through a stack of kind k: its operations and their
\* blocks in order, each operation (but a residual addition, which adds the
\* sublayer's input and its result) reading the value produced just before it,
\* and every attention of one kind given the same mask.
StackInOrder(lg, k, ids) ==
  LET n == IF k \in {"encoder", "lm"} THEN 7 ELSE 10
  IN /\ [i \in 1 .. Len(lg) |-> lg[i].op] = StackOps(k)
     /\ \A i \in 1 .. Len(lg) : lg[i].layer = LayerAt(i, n)
     /\ lg[1].a = ids
     /\ \A i \in 2 .. Len(lg) :
          IF lg[i].op = "add" THEN lg[i].b = lg[i - 1].out
          ELSE lg[i].a = lg[i - 1].out
     /\ \A i \in 1 .. Len(lg) :
          /\ lg[i].op \in {"mha", "mha2"} =>
               lg[i].mask = MaskArg(fargs.has_enc_mask, Arg.enc_mask)
          /\ lg[i].op \in {"causal_mha", "mha1"} =>
               lg[i].mask = MaskArg(fargs.has_dec_mask, Arg.dec_mask)
          /\ lg[i].op = "mha2" => (lg[i].b = flow.enc /\ lg[i].c = flow.enc)

\* The part of a transformer call's log written by the encoder stack.
EncoderLog == SubSeq(flow.log, 1, Len(flow.log) - Len(DecoderLog))

\* C19: a stack call that returned applied embedding, positional encoding,
\* its blocks first to last, the final LayerNorm and, in a decoder, the
\* projection to the vocabulary; each operation continued from the one before
\* (block i + 1 from block i), every block was given the caller's mask(s),
\* and every seq2seq decoder block the same encoder output: the one handed to
\* the call, or in a transformer call the encoder's final value.
C19_StackOrder ==
  flow.status = "returned" =>
    CASE net.kind = "encoder" -> StackInOrder(flow.log, "encoder", Arg.enc_input)
      [] net.kind = "lm" -> StackInOrder(flow.log, "lm", Arg.dec_input)
      [] net.kind = "decoder" ->
           /\ StackInOrder(flow.log, "decoder", Arg.dec_input)
           /\ flow.enc = Arg.enc_output
      [] OTHER ->
           /\ StackInOrder(EncoderLog, "encoder", Arg.enc_input)
           /\ StackInOrder(DecoderLog, "decoder", Arg.dec_input)
           /\ flow.enc = EncoderLog[Len(EncoderLog)].out

\* A transformer call with both masks returned; the second decoder block
\* continued from the first and read the encoder's final value.
C19_Witness ==
  /\ net.kind = "transformer"
  /\ flow.status = "returned"
  /\ fargs.has_enc_mask /\ fargs.has_dec_mask
  /\ EntriesOfLayer(2)[1].a = EntriesOfLayer(1)[10].out
  /\ EntriesOfLayer(2)[4].b = EncoderLog[Len(EncoderLog)].out
  /\ EncoderLog[Len(EncoderLog)].op = "ln"

\* ------------------------------------------------ the end id: properties

\* The end id is among the ids generated so far.
EndGenerated == \E k \in 1 .. Len(Generated) : Generated[k] = EndId(mode)

\* The end id occurs among the generated ids only as the last of them.
EndOnlyLast ==
  \A k \in 1 .. Len(Generated) :
    Generated[k] = EndId(mode) => k = Len(Generated)

\* C20: in every state of the generation loop the end id occurs among the
\* generated ids at most once, as the last of them; it gets there by the
\* append of the iteration that selected it, before the break test, and once
\* it is there no step calls the decoder or changes the sequence: the mask is
\* recomputed, the break test leaves the loop, and the result is decoded.
C20_EndIdOnlyLast ==
  [][/\ EndOnlyLast
     /\ EndOnlyLast'
     /\ (~EndGenerated /\ EndGenerated') =>
          (pc = "hstack" /\ pc' = "ones_like"
             /\ prediction_id = <<EndId(mode)>>
             /\ dec_input_ids' = Append(dec_input_ids, EndId(mode)))
     /\ EndGenerated =>
          (dec_input_ids' = dec_input_ids /\ calls' = calls
             /\ pc \in {"ones_like", "break", "decode"}
             /\ pc' \in {"break", "decode", "done"}
             /\ (pc = "break" => pc' = "decode"))]_vars

\* A run that generated two or more ids, ended on the end id before the step
\* bound, and handed the result to tokenizer.decode.
C20_Witness ==
  /\ pc = "done"
  /\ Len(Generated) >= 2
  /\ Len(Generated) < max_steps
  /\ Generated[Len(Generated)] = EndId(mode)
  /\ Len(LoopCalls) = Len(Generated)

\* ------------------------------------------ fully masked rows: properties

\* The softmax row of query i of batch element n is not-a-number in every
\* layer and head of the call's self-attention: every key was masked.
SelfRowAllMasked(n, i) ==
  \A l \in DOMAIN fres.self_w : \A h \in Heads : \A j \in 1 .. fcall.T :
    IsNaN(fres.self_w[l][n][h][i][j])

\* The padding mask of batch element n is 0 at every position j <= i.
PrefixPadded(n, i) ==
  fcall.has_mask /\ \A j \in 1 .. i : fcall.mask[n][j] = 0

\* The decoder mask the generation loop hands to the decoder: all ones.
LoopMask ==
  fcall.has_mask /\ \A n \in 1 .. fcall.N : \A j \in 1 .. fcall.T :
    fcall.mask[n][j] = 1

\* C21 as stated: a decoder call with the all-ones mask of the generation loop
\* has no fully masked self-attention row, and in a causal self-attention call
\* row i is fully masked exactly when the padding mask is 0 at every j <= i.
C21_CausalRowMaskedIffPrefixPadded ==
  /\ (Returned /\ fcall.kind = "decoder" /\ LoopMask) =>
       \A n \in 1 .. fcall.N : \A i \in 1 .. fcall.T : ~SelfRowAllMasked(n, i)
  /\ (Returned /\ fcall.kind = "causal") =>
       \A n \in 1 .. fcall.N : \A i \in 1 .. fcall.T :
         SelfRowAllMasked(n, i) <=> PrefixPadded(n, i)

\* ------------------------------------------- lengths of the calls: properties

\* The longest decoder input of a run that takes all its steps.
LongestCall == Len(prompt) + max_steps - 1

\* Some decoder call of the run was given more than max_len positions.
SomeCallTooLong == \E c \in 1 .. Len(calls) : Len(calls[c].dec_input) > max_len

\* C22: the k-th decoder call of the loop is made on L0 + k - 1 ids whatever
\* max_len is, and there are at most max_steps of them (the calls of the
\* cells before the loop are made on the L0 initial ids).  So when L0 +
\* max_steps - 1 <= max_len no call is given more than max_len positions;
\* when it is larger, a run that takes all its steps made such a call, and a
\* run ended by a raising decoder call had just handed it a sequence longer
\* than max_len.  translate (one start id, 32 steps, max_len 512) is within it.
C22_CallLengths ==
  /\ \A k \in 1 .. Len(LoopCalls) :
       Len(LoopCalls[k].dec_input) = Len(prompt) + k - 1
  /\ Len(LoopCalls) <= max_steps
  /\ \A c \in 1 .. Len(calls) :
       c <= PreLoopCalls(mode) => Len(calls[c].dec_input) = Len(prompt)
  /\ LongestCall <= max_len => ~SomeCallTooLong
  /\ (LongestCall > max_len /\ Len(LoopCalls) = max_steps) => SomeCallTooLong
  /\ (pc = "raised" /\ calls # <<>>) =>
       Len(calls[Len(calls)].dec_input) > max_len
  /\ Len(PromptOfLen(1)) + TranslateSteps - 1 <= TranslateMaxLen

\* A run whose step bound does not fit max_len: two calls of the loop
\* returned, the third was made on a sequence longer than max_len and raised.
C22_Witness ==
  /\ pc = "raised"
  /\ Len(LoopCalls) >= 3
  /\ LongestCall > max_len
  /\ Len(LoopCalls[Len(LoopCalls)].dec_input) = max_len + 1

\* A run whose step bound fits max_len took all its steps.
C22_WitnessFits ==
  /\ pc = "done"
  /\ LongestCall <= max_len
  /\ Len(LoopCalls) = max_steps
  /\ Len(LoopCalls[Len(LoopCalls)].dec_input) = LongestCall

\* ------------------------------------------------- ids in range: properties

\* The positions of the id sequence ids that the embedding table does not have.
ForeignPositions(ids) == {i \in 1 .. Len(ids) : ids[i] \notin Vocab}

\* The last decoder call raised in the embedding lookup.
IndexErrorRaised ==
  /\ pc = "raised"
  /\ calls # <<>>
  /\ ~EmbeddingReturns(calls[Len(calls)].dec_input)

\* C23: every id the loop has appended is an index of the decoder's logits,
\* 0 <= id < vocab_size; every id of the current sequence that the embedding
\* table does not have is one of the initial ids; and a decoder call that
\* raised in the embedding lookup was made on the initial sequence, before
\* any id was appended: the first call of the loop, or in the notebook cells
\* the call of transformer(...), before the loop.
C23_GeneratedIdsInRange ==
  /\ \A k \in 1 .. Len(Generated) : Generated[k] \in Vocab
  /\ \A i \in ForeignPositions(dec_input_ids) :
       i <= Len(prompt) /\ dec_input_ids[i] = prompt[i]
  /\ IndexErrorRaised =>
       /\ calls[Len(calls)].dec_input = prompt
       /\ ForeignPositions(prompt) # {}
       /\ Generated = <<>>
       /\ Len(LoopCalls) <= 1
       /\ (mode = "cell" => Len(calls) = 1)

\* A run appended three ids, the highest id of the vocabulary among them.
C23_Witness ==
  /\ pc = "done"
  /\ Len(Generated) >= 3
  /\ \E k \in 1 .. Len(Generated) : Generated[k] = VocabSize - 1
  /\ \A k \in 1 .. Len(Generated) : Generated[k] \in Vocab

\* A loop started from a sequence with an id outside the table: its first
\* decoder call raised.
C23_WitnessIndexError ==
  /\ IndexErrorRaised
  /\ Len(LoopCalls) = 1
  /\ Generated = <<>>

\* The notebook cells started from such a sequence: the transformer(...) cell
\* raised, and the loop was not reached.
C23_WitnessIndexErrorCell ==
  /\ IndexErrorRaised
  /\ mode = "cell"
  /\ Len(calls) = 1
  /\ dec_input_ids = <<>>

============================================================================
